---- MODULE Spec2Model ----
(***************************************************************************)
(* Arc Spaces: the workspace synchronisation and reconciliation engine.    *)
(*                                                                         *)
(* One replicated partition (chrome.storage.sync) is shared by the         *)
(* devices; every device has its own local partition                       *)
(* (chrome.storage.local), its own bookmark store (chrome.bookmarks) and   *)
(* its own WorkspaceService instance.                                      *)
(*                                                                         *)
(* A handler of the service is an operator from a "world" record to a      *)
(* world record.  A world w holds what one handler can touch:              *)
(*   w.e      the WorkspaceService fields of the device                    *)
(*   w.l      the device's local partition                                 *)
(*   w.b      the device's bookmark store                                  *)
(*   w.s      the replicated partition                                     *)
(*   w.clock  the source of fresh ids (Date.now())                         *)
(*   w.g      history of the writes made (read by the properties only)     *)
(*                                                                         *)
(* Strings that the code takes apart (folder titles, names, emoji) are     *)
(* sequences of tokens; a workspace id is a number, 0 being 'ws_default'   *)
(* and n > 0 the id made from the n-th reading of the clock.               *)
(***************************************************************************)
EXTENDS Naturals, Integers, Sequences, FiniteSets, TLC

VARIABLES sync, dev, clock, hist, app

vars == <<sync, dev, clock, hist, app>>

\* a component (PinnedSection, BookmarkTree) after its constructor.
\* refreshing, pendingRefresh: its two flags; at: the await at which its
\* refresh body is suspended ("idle" when none is).  Read by the properties
\* only: begun, ended: how many refresh bodies began and ended, modulo
\* Serials; asked: the refresh requests that arrived during the running body;
\* stale: a request arrived after the latest body began; further: the latest
\* body was begun by a finally block; outcome: how the latest body ended
ComponentNew ==
  [refreshing |-> FALSE, pendingRefresh |-> FALSE, at |-> "idle",
   begun |-> 0, ended |-> 0, asked |-> 0, stale |-> FALSE, further |-> FALSE,
   outcome |-> "none"]

\* the App of the side panel of device "A" after its constructor.  started:
\* App.init() was called; listening: the storage listener is registered;
\* syncing: the _syncing flag; running: the calls of workspaceService.init()
\* that have not returned; notes: the change notifications of the replicated
\* partition not yet delivered to the listener; noted: the changes made by
\* other devices the listener was notified of; read: the value of noted when
\* the engine last began to read the replicated partition; dropped: the
\* listener discarded a notification during the re-initialization in progress
\* pinnedSection, bookmarkTree: the two components that redraw on request
AppNew ==
  [started |-> FALSE, listening |-> FALSE, syncing |-> FALSE, running |-> 0,
   notes |-> 0, noted |-> 0, read |-> 0, dropped |-> FALSE,
   pinnedSection |-> ComponentNew, bookmarkTree |-> ComponentNew]

----------------------------------------------------------------------------
(* Bounds of the model *)

\* fresh workspace ids the clock may hand out
MaxIds == 2
\* bookmark nodes a device's store may ever hold (ids 0..MaxNodes)
MaxNodes == 7

Devices == {"A", "B"}

----------------------------------------------------------------------------
(* Generic helpers *)

Range(q) == {q[i] : i \in 1..Len(q)}

RECURSIVE FilterSeq(_, _)
\* q.filter(x => x \in S)
FilterSeq(q, S) ==
  IF q = <<>> THEN <<>>
  ELSE IF Head(q) \in S THEN <<Head(q)>> \o FilterSeq(Tail(q), S)
       ELSE FilterSeq(Tail(q), S)

RECURSIVE SortedSeq(_)
\* the numbers of S in increasing order
SortedSeq(S) ==
  IF S = {} THEN <<>>
  ELSE LET m == CHOOSE x \in S : \A y \in S : x <= y
       IN <<m>> \o SortedSeq(S \ {m})

\* f without the key k (JavaScript: delete f[k])
DropKey(f, k) == [x \in DOMAIN f \ {k} |-> f[x]]

\* f with f[k] = v, k added when absent (JavaScript: f[k] = v)
PutKey(f, k, v) == [x \in DOMAIN f \cup {k} |-> IF x = k THEN v ELSE f[x]]

\* Object.assign(f, g)
Assign(f, g) == [x \in DOMAIN f \cup DOMAIN g |-> IF x \in DOMAIN g THEN g[x] ELSE f[x]]

EmptyMap == [x \in {} |-> 0]

\* `const v = value; body`: the value is computed once and named
With(v, Body(_)) == Body(v)

\* statement sequencing: Rest runs on the world w unless w holds a thrown
\* exception, which goes on to the caller
Bind(w, Rest(_)) == IF w.err THEN w ELSE Rest(w)

\* q[0] in JavaScript: undefined (here -1, the absent id) when q is empty
First(q) == IF Len(q) > 0 THEN q[1] ELSE -1

----------------------------------------------------------------------------
(* Titles, emoji prefix, palette *)

SHORTCUTS_FOLDER_NAME == <<"__shortcuts__">>

ARC_SPACES == <<"Arc Spaces">>

PERSONAL == <<"Personal">>

\* the tokens EMOJI_PREFIX_RE accepts as an emoji
EmojiTokens == {"E1", "E2"}

NoEmoji == <<>>

extractEmojiPrefix(title) ==
  IF Len(title) >= 2 /\ title[1] \in EmojiTokens /\ title[2] = " "
  THEN [emoji |-> <<title[1]>>, name |-> SubSeq(title, 3, Len(title))]
  ELSE [emoji |-> NoEmoji, name |-> title]

buildFolderTitle(name, emoji) ==
  IF emoji # NoEmoji THEN emoji \o <<" ">> \o name ELSE name

WORKSPACE_COLORS ==
  <<"purple", "blue", "cyan", "green", "yellow", "orange", "red", "pink", "grey">>

----------------------------------------------------------------------------
(* The bookmark store of one device (chrome.bookmarks behind                *)
(* bookmarkService).  b.nodes maps a node id to [parent, title, url];       *)
(* b.next is the next id the store hands out.  Ids grow and children are    *)
(* appended, so a folder's children in index order are its children in id   *)
(* order.  Node 0 is the tree root, 1 the bookmarks bar, 2 "Other           *)
(* Bookmarks".                                                              *)

NoUrl == ""

NoNode == 0

OtherBookmarksId == 2

BkEmpty ==
  [nodes |-> (0 :> [parent |-> 0, title |-> <<>>, url |-> NoUrl]
           @@ 1 :> [parent |-> 0, title |-> <<"Bookmarks Bar">>, url |-> NoUrl]
           @@ 2 :> [parent |-> 0, title |-> <<"Other Bookmarks">>, url |-> NoUrl]),
   next |-> 3]

\* bookmarkService.get(id) is not null
BkExists(b, id) == id # NoNode /\ id \in DOMAIN b.nodes

BkIsFolder(b, id) == b.nodes[id].url = NoUrl

\* bookmarkService.getChildren(id): the ids of the children, in index order
BkChildren(b, id) ==
  IF ~(id \in DOMAIN b.nodes) THEN <<>>
  ELSE SortedSeq({n \in DOMAIN b.nodes : n # 0 /\ b.nodes[n].parent = id})

\* children.filter(c => !c.url)
BkFolderChildren(b, id) ==
  FilterSeq(BkChildren(b, id), {n \in DOMAIN b.nodes : BkIsFolder(b, n)})

\* bookmarkService.create({parentId, title, url}); the new node's id is b.next
BkCreate(b, parentId, title, url) ==
  [nodes |-> PutKey(b.nodes, b.next, [parent |-> parentId, title |-> title, url |-> url]),
   next |-> b.next + 1]

\* bookmarkService.update(id, {title})
BkRename(b, id, title) ==
  IF BkExists(b, id) THEN [b EXCEPT !.nodes[id].title = title] ELSE b

RECURSIVE BkDescendants(_, _)
BkDescendants(b, S) ==
  LET kids == {n \in DOMAIN b.nodes : n # 0 /\ b.nodes[n].parent \in S /\ ~(n \in S)}
  IN IF kids = {} THEN S ELSE BkDescendants(b, S \cup kids)

\* try { bookmarkService.removeTree(id) } catch {}
BkRemoveTree(b, id) ==
  IF ~BkExists(b, id) THEN b
  ELSE LET gone == BkDescendants(b, {id})
       IN [b EXCEPT !.nodes = [n \in DOMAIN b.nodes \ gone |-> b.nodes[n]]]

----------------------------------------------------------------------------
(* Records and partitions *)

DefaultId == 0

NoId == -1

\* the fields of an in-memory record that never leave the device
LocalFields == {"rootFolderId", "pinnedBookmarkIds"}

\* ws_meta absent (getWorkspaceMeta() returns null)
NoMeta == [order |-> <<>>, version |-> 0]

\* the legacy "workspaces" key absent (getWorkspaces() returns null)
NoV1 == [present |-> FALSE, activeWorkspaceId |-> NoId, order |-> <<>>, items |-> EmptyMap]

\* getWorkspaceLocal() when ws_local is absent
EmptyLocal == [activeWorkspaceId |-> NoId, rootFolderIds |-> EmptyMap]

\* an empty replicated partition; keys lists the item keys in enumeration order
SyncEmpty ==
  [meta |-> NoMeta, items |-> EmptyMap, keys |-> <<>>, v1 |-> NoV1, arcSpacesRootId |-> NoNode]

\* the "settings" item absent (getSettings() returns null)
NoSettings == [present |-> FALSE, theme |-> "none"]

\* an empty local partition
LocalEmpty == [ws_local |-> EmptyLocal, arcSpacesRootId |-> NoNode]

\* the fields of a WorkspaceService after its constructor
EngineNew ==
  [order |-> <<>>, items |-> EmptyMap, localState |-> EmptyLocal, localNull |-> TRUE,
   arcSpacesRootId |-> NoNode, needsReinstallPrompt |-> FALSE, reinstallMeta |-> NoMeta,
   phase |-> "new"]

\* nothing written yet by the running handler
HistEmpty == [merges |-> {}, localFieldWritten |-> FALSE, deleted |-> {}]

\* a workspace record as create(), first-run, recovery and adoption build it
Workspace(id, name, emoji, icon, colorScheme, shortcuts) ==
  [id |-> id, name |-> name, emoji |-> emoji, icon |-> icon, colorScheme |-> colorScheme,
   pinnedBookmarks |-> <<>>, shortcuts |-> shortcuts]

\* ws.rootFolderId is truthy
HasRoot(ws) == "rootFolderId" \in DOMAIN ws

\* { ...workspace, rootFolderId: folderId }
WithRoot(ws, folderId) == PutKey(ws, "rootFolderId", folderId)

----------------------------------------------------------------------------
(* Storage adapter (storageService) *)

\* thrown exception: the handler stops here, the world stays as it is
Throw(w) == [w EXCEPT !.err = TRUE]

\* the underlying store rejects the next replicated write of the handler:
\* w.fault holds the ordinal numbers of the rejected writes
Rejected(w) == (w.syncOps + 1) \in w.fault

\* one more replicated write was handed to the underlying store
Attempted(w) == [w EXCEPT !.syncOps = @ + 1]

\* chrome.storage.sync.get(keys): the partition, or a rejection
chromeSyncGet(w) == [val |-> w.s, settings |-> w.settings, err |-> w.readFault]

\* chrome.storage.local.get(keys): the partition, or a rejection
chromeLocalGet(w) == [val |-> w.l, err |-> w.readFault]

\* variant of getSync without its catch: a rejection goes on to the caller
getSyncUncaught(w) == chromeSyncGet(w)

\* getSync(keys): a rejected read is caught and gives the empty object
getSync(w) ==
  IF chromeSyncGet(w).err THEN [val |-> SyncEmpty, settings |-> NoSettings, err |-> FALSE]
  ELSE chromeSyncGet(w)

\* getLocal(keys): a rejected read is caught and gives the empty object
getLocal(w) ==
  IF chromeLocalGet(w).err THEN [val |-> LocalEmpty, err |-> FALSE] ELSE chromeLocalGet(w)

\* setSync(data): `written` is the world chrome.storage.sync.set leaves when
\* it accepts the data; a rejection is logged and thrown again
setSync(w, written) ==
  IF w.err THEN w
  ELSE IF Rejected(w) THEN Throw(Attempted(w))
  ELSE written

\* chrome.storage.sync.remove(key) inside try/catch: `removed` is the world
\* it leaves when it accepts; a rejection is caught
syncRemove(w, removed) ==
  IF w.err THEN w
  ELSE IF Rejected(w) THEN Attempted(w)
  ELSE removed

\* setLocal(data): `written` is the world chrome.storage.local.set leaves
\* when it accepts the data; a rejection is logged and swallowed
setLocal(w, written) ==
  IF w.err THEN w
  ELSE IF w.localFault THEN w
  ELSE written

\* getSettings(): the "settings" item, null when absent
getSettings(w) == getSync(w).settings

saveSettings(w, settings) ==
  setSync(w, [Attempted(w) EXCEPT !.settings = settings, !.writes = @ + 1])

getWorkspaceMeta(w) == getSync(w).val.meta

saveWorkspaceMeta(w, meta) ==
  setSync(w, [Attempted(w) EXCEPT !.s.meta = meta, !.writes = @ + 1])

getWorkspaces(w) == getSync(w).val.v1

deleteOldWorkspacesKey(w) ==
  syncRemove(w, [Attempted(w) EXCEPT !.s.v1 = NoV1, !.writes = @ + 1])

saveWorkspaceItem(w, wsId, data) ==
  setSync(w,
    [Attempted(w) EXCEPT !.s.items = PutKey(@, wsId, data),
              !.s.keys = IF wsId \in Range(@) THEN @ ELSE Append(@, wsId),
              !.g.localFieldWritten = @ \/ (DOMAIN data \cap LocalFields # {}),
              !.writes = @ + 1])

deleteWorkspaceItem(w, wsId) ==
  syncRemove(w,
    [Attempted(w) EXCEPT !.s.items = DropKey(@, wsId),
              !.s.keys = FilterSeq(@, Range(@) \ {wsId}),
              !.writes = @ + 1])

\* the ids of `order` that have an item, in the order of `order`
\* (the keys of the object getAllWorkspaceItems(order) returns)
PresentKeys(w, order) == FilterSeq(order, DOMAIN getSync(w).val.items)

getAllWorkspaceItems(w, order) ==
  [id \in Range(PresentKeys(w, order)) |-> getSync(w).val.items[id]]

\* every per-workspace item key of the replicated partition
discoverAllWorkspaceKeys(w) == getSync(w).val.keys

getWorkspaceLocal(w) == getLocal(w).val.ws_local

saveWorkspaceLocal(w, data) ==
  setLocal(w, [w EXCEPT !.l.ws_local = data, !.writes = @ + 1])

saveArcSpacesRootIdLocal(w, id) ==
  setLocal(w, [w EXCEPT !.l.arcSpacesRootId = id, !.writes = @ + 1])

\* the value getArcSpacesRootIdLocal() returns: the local key, else the legacy
\* replicated key
ArcSpacesRootIdLocal(w) ==
  IF getLocal(w).val.arcSpacesRootId # NoNode THEN getLocal(w).val.arcSpacesRootId
  ELSE getSync(w).val.arcSpacesRootId

\* the world getArcSpacesRootIdLocal() leaves: a legacy replicated id is copied
\* to the local partition
getArcSpacesRootIdLocal(w) ==
  IF getLocal(w).val.arcSpacesRootId = NoNode /\ getSync(w).val.arcSpacesRootId # NoNode
  THEN saveArcSpacesRootIdLocal(w, getSync(w).val.arcSpacesRootId)
  ELSE w

----------------------------------------------------------------------------
(* Persistence helpers of the service *)

\* variant of _syncableItem that strips nothing: the whole record is
\* written
syncableItemWhole(data) == data

syncableItem(data) == [f \in DOMAIN data \ LocalFields |-> data[f]]

saveItem(w, wsId) == saveWorkspaceItem(w, wsId, syncableItem(w.e.items[wsId]))

RECURSIVE MergeInto(_, _)
MergeInto(merged, secondary) ==
  IF secondary = <<>> THEN merged
  ELSE IF Head(secondary) \in Range(merged) THEN MergeInto(merged, Tail(secondary))
       ELSE MergeInto(Append(merged, Head(secondary)), Tail(secondary))

\* variant of _mergeOrders that starts from the secondary order
mergeOrdersSecondaryFirst(primary, secondary) == MergeInto(secondary, primary)

\* variant of _mergeOrders that keeps the primary order only
mergeOrdersPrimaryOnly(primary, secondary) == primary

mergeOrders(primary, secondary) == MergeInto(primary, secondary)

\* _saveMeta({skipMerge}); a merging write is entered in the history with
\* the replicated order it read, the in-memory order it started from and
\* the replicated order it left
saveMeta(w, skipMerge) ==
  LET remote == getWorkspaceMeta(w)
      w1 == IF ~skipMerge /\ remote.version # 0
            THEN [w EXCEPT !.e.order = mergeOrders(@, remote.order)]
            ELSE w
      w2 == saveWorkspaceMeta(w1, [order |-> w1.e.order, version |-> 2])
  IN IF w.err THEN w
     ELSE IF skipMerge \/ w2.err THEN w2
     ELSE [w2 EXCEPT !.g.merges = @ \cup
             {[before |-> remote.order, mem |-> w.e.order, after |-> w2.s.meta.order]}]

saveLocal(w) == saveWorkspaceLocal(w, w.e.localState)

----------------------------------------------------------------------------
(* Loading and migration *)

\* variant of _loadV2 without the recovery of orphaned items
loadV2NoRecovery(w, meta) ==
  [w EXCEPT !.e.order = meta.order,
            !.e.items = getAllWorkspaceItems(w, meta.order)]

loadV2(w, meta) ==
  LET w1 == [w EXCEPT !.e.order = meta.order,
                      !.e.items = getAllWorkspaceItems(w, meta.order)]
      allKeys == discoverAllWorkspaceKeys(w1)
      orphaned == FilterSeq(allKeys, Range(allKeys) \ Range(w1.e.order))
      orphanItems == getAllWorkspaceItems(w1, orphaned)
  IN IF Len(orphaned) > 0
     THEN saveMeta([w1 EXCEPT !.e.items = Assign(@, orphanItems),
                              !.e.order = mergeOrders(@, PresentKeys(w1, orphaned))],
                   FALSE)
     ELSE w1

RECURSIVE MigrateLoop(_, _, _, _)
\* the for loop of _migrateV1toV2 over the ids `todo`; rf is rootFolderIds
MigrateLoop(w, oldData, todo, rf) ==
  IF todo = <<>> THEN [w |-> w, rf |-> rf]
  ELSE LET wsId == Head(todo)
       IN IF ~(wsId \in DOMAIN oldData.items)
          THEN MigrateLoop(w, oldData, Tail(todo), rf)
          ELSE LET ws == oldData.items[wsId]
                   rf1 == IF HasRoot(ws) THEN PutKey(rf, wsId, ws.rootFolderId) ELSE rf
                   w1 == saveWorkspaceItem([w EXCEPT !.e.items = PutKey(@, wsId, ws)],
                                           wsId, syncableItem(ws))
                   w2 == [w1 EXCEPT !.e.items = PutKey(@, wsId, syncableItem(ws))]
               IN IF w1.err THEN [w |-> w1, rf |-> rf1]
                  ELSE MigrateLoop(w2, oldData, Tail(todo), rf1)

\* variant of _migrateV1toV2 that leaves the legacy value in place
migrateV1toV2KeepingLegacy(w, oldData) ==
  With(MigrateLoop([w EXCEPT !.e.order = oldData.order, !.e.items = EmptyMap],
                   oldData, oldData.order, EmptyMap),
       LAMBDA r :
         LET w1 == saveWorkspaceMeta(r.w, [order |-> r.w.e.order, version |-> 2])
             active == IF oldData.activeWorkspaceId # NoId THEN oldData.activeWorkspaceId
                       ELSE First(w1.e.order)
             w2 == [w1 EXCEPT !.e.localState = [activeWorkspaceId |-> active, rootFolderIds |-> r.rf],
                              !.e.localNull = FALSE]
         IN IF w1.err THEN w1 ELSE saveWorkspaceLocal(w2, w2.e.localState))

migrateV1toV2(w, oldData) ==
  With(MigrateLoop([w EXCEPT !.e.order = oldData.order, !.e.items = EmptyMap],
                   oldData, oldData.order, EmptyMap),
       LAMBDA r :
         LET w1 == saveWorkspaceMeta(r.w, [order |-> r.w.e.order, version |-> 2])
             active == IF oldData.activeWorkspaceId # NoId THEN oldData.activeWorkspaceId
                       ELSE First(w1.e.order)
             w2 == [w1 EXCEPT !.e.localState = [activeWorkspaceId |-> active, rootFolderIds |-> r.rf],
                              !.e.localNull = FALSE]
         IN IF w1.err THEN w1
            ELSE deleteOldWorkspacesKey(saveWorkspaceLocal(w2, w2.e.localState)))

----------------------------------------------------------------------------
(* Root container and recovery from folders *)

\* bookmarkService.create(...) in world w; chrome.bookmarks.create rejects
\* when the parent does not exist
bookmarkCreate(w, parentId, title, url) ==
  IF ~(parentId \in DOMAIN w.b.nodes) THEN Throw(w)
  ELSE [w EXCEPT !.b = BkCreate(@, parentId, title, url), !.writes = @ + 1]

\* the id of the node the last create() made
Created(w) == w.b.next - 1

\* the score _findBestArcSpacesRoot gives a candidate
RootScore(w, c) ==
  LET folderChildren == BkFolderChildren(w.b, c)
      wsNames == {w.e.items[id].name : id \in Range(w.e.order) \cap DOMAIN w.e.items}
  IN Len(folderChildren) * 1000
     + Cardinality({n \in Range(folderChildren) : w.b.nodes[n].title \in wsNames})

findBestArcSpacesRoot(w) ==
  LET candidates == {n \in DOMAIN w.b.nodes :
                       n # 0 /\ BkIsFolder(w.b, n) /\ w.b.nodes[n].title = ARC_SPACES}
  IN IF candidates = {} THEN NoNode
     ELSE IF Cardinality(candidates) = 1 THEN CHOOSE n \in candidates : TRUE
     ELSE CHOOSE n \in candidates :
            \A m \in candidates :
              \/ RootScore(w, m) < RootScore(w, n)
              \/ RootScore(w, m) = RootScore(w, n) /\ n <= m

getOtherBookmarksId(w) == OtherBookmarksId

RECURSIVE ShortcutsOf(_, _)
\* bookmarks.filter(b => b.url).map(b => ({url, title}))
ShortcutsOf(b, kids) ==
  IF kids = <<>> THEN <<>>
  ELSE IF b.nodes[Head(kids)].url # NoUrl
       THEN <<[url |-> b.nodes[Head(kids)].url, title |-> b.nodes[Head(kids)].title]>>
            \o ShortcutsOf(b, Tail(kids))
       ELSE ShortcutsOf(b, Tail(kids))

\* the first child folder of rootFolderId titled __shortcuts__, else NoNode
ShortcutsFolder(b, rootFolderId) ==
  LET hits == FilterSeq(BkFolderChildren(b, rootFolderId),
                        {n \in DOMAIN b.nodes : b.nodes[n].title = SHORTCUTS_FOLDER_NAME})
  IN IF hits = <<>> THEN NoNode ELSE Head(hits)

loadShortcutsFromBookmarks(w, rootFolderId) ==
  LET folder == ShortcutsFolder(w.b, rootFolderId)
  IN IF folder = NoNode THEN <<>> ELSE ShortcutsOf(w.b, BkChildren(w.b, folder))

RECURSIVE RebuildLoop(_, _, _, _)
\* the for loop of _rebuildFromBookmarkFolders from index i (from 0) on
RebuildLoop(w, subfolders, i, rf) ==
  IF i >= Len(subfolders) THEN [w |-> w, rf |-> rf]
  ELSE LET folder == subfolders[i + 1]
           wsId == IF i = 0 THEN DefaultId ELSE w.clock + 1
           en == extractEmojiPrefix(w.b.nodes[folder].title)
           workspace == Workspace(wsId, en.name, en.emoji,
                                  IF i = 0 THEN "home" ELSE "folder",
                                  WORKSPACE_COLORS[(i % Len(WORKSPACE_COLORS)) + 1],
                                  loadShortcutsFromBookmarks(w, folder))
           w1 == [w EXCEPT !.clock = IF i = 0 THEN @ ELSE @ + 1,
                           !.e.order = Append(@, wsId),
                           !.e.items = PutKey(@, wsId, WithRoot(workspace, folder))]
           w2 == saveWorkspaceItem(w1, wsId, syncableItem(workspace))
       IN IF w2.err THEN [w |-> w2, rf |-> rf]
          ELSE RebuildLoop(w2, subfolders, i + 1, PutKey(rf, wsId, folder))

rebuildFromBookmarkFolders(w, rootId, subfolders) ==
  With(RebuildLoop([w EXCEPT !.e.order = <<>>, !.e.items = EmptyMap], subfolders, 0, EmptyMap),
       LAMBDA r :
         LET w1 == saveWorkspaceMeta(r.w, [order |-> r.w.e.order, version |-> 2])
             w2 == [w1 EXCEPT !.e.localState =
                                 [activeWorkspaceId |-> First(w1.e.order), rootFolderIds |-> r.rf],
                              !.e.localNull = FALSE,
                              !.e.arcSpacesRootId = rootId]
         IN IF w1.err THEN w1
            ELSE saveArcSpacesRootIdLocal(saveWorkspaceLocal(w2, w2.e.localState), rootId))

----------------------------------------------------------------------------
(* First-run setup *)

\* the default workspace _firstRunSetup builds
DefaultWorkspace == Workspace(DefaultId, PERSONAL, NoEmoji, "home", "purple", <<>>)

\* the root container _firstRunSetup uses: the stored id, else the best
\* existing one, else a new folder under "Other Bookmarks"
firstRunRoot(w) ==
  LET stored == ArcSpacesRootIdLocal(w)
      w0 == getArcSpacesRootIdLocal(w)
  IN IF stored # NoNode THEN [w0 EXCEPT !.e.arcSpacesRootId = stored]
     ELSE With(findBestArcSpacesRoot(w0),
          LAMBDA bestRootId :
            IF bestRootId # NoNode
            THEN saveArcSpacesRootIdLocal([w0 EXCEPT !.e.arcSpacesRootId = bestRootId], bestRootId)
            ELSE Bind(bookmarkCreate(w0, getOtherBookmarksId(w0), ARC_SPACES, NoUrl),
                 LAMBDA wc :
                   saveArcSpacesRootIdLocal([wc EXCEPT !.e.arcSpacesRootId = Created(wc)],
                                            Created(wc))))

\* the ids another device holds when its writes reach the replicated
\* partition: its default workspace and one it created
OtherDeviceOrder == <<DefaultId, 1>>

\* the record another device wrote for an id: its default workspace was
\* renamed and holds a shortcut
OtherDeviceItem(id) ==
  IF id = DefaultId
  THEN [DefaultWorkspace EXCEPT !.name = <<"Home">>,
                                !.shortcuts = <<[url |-> "u1", title |-> <<"Site">>]>>]
  ELSE Workspace(id, <<"Work">>, NoEmoji, "folder", "blue", <<>>)

\* the workspace items and the order item of another device arrive in the
\* replicated partition
OtherDeviceWrite(w) ==
  [w EXCEPT !.s.items = Assign(@, [id \in Range(OtherDeviceOrder) |-> OtherDeviceItem(id)]),
            !.s.keys = MergeInto(@, OtherDeviceOrder),
            !.s.meta = [order |-> OtherDeviceOrder, version |-> 2]]

\* the awaits of a first run at which another device's writes may arrive:
\* 1 before the first look of _firstRunSetup, 2 during its delay, 3 before
\* the default item is written, 4 before the order item is re-read, 5
\* between that read and the write of the order item, 6 after that write
RacePoints == 1..6

\* the writes of another device arrive at point `here` when k = here (k = 0:
\* no write arrives)
Arrive(w, k, here) == IF k = here THEN OtherDeviceWrite(w) ELSE w

\* write the default workspace whose folder is personalFolderId
firstRunWriteR(w2, personalFolderId, k) ==
  LET w3 == [w2 EXCEPT !.e.order = <<DefaultId>>,
                       !.e.items = (DefaultId :> DefaultWorkspace)]
  IN Bind(saveWorkspaceItem(Arrive(w3, k, 3), DefaultId, syncableItem(w3.e.items[DefaultId])),
     LAMBDA w3a :
       LET w4 == Arrive(w3a, k, 4)
           raceMeta == getWorkspaceMeta(w4)
           w5 == IF raceMeta.version = 2
                 THEN [w4 EXCEPT !.e.order = mergeOrders(raceMeta.order, @)]
                 ELSE w4
       IN Bind(saveWorkspaceMeta(Arrive(w5, k, 5), [order |-> w5.e.order, version |-> 2]),
          LAMBDA w6 :
            LET w7 == [Arrive(w6, k, 6) EXCEPT !.e.localState =
                                [activeWorkspaceId |-> DefaultId,
                                 rootFolderIds |-> (DefaultId :> personalFolderId)],
                             !.e.localNull = FALSE]
            IN saveWorkspaceLocal(w7, w7.e.localState)))

firstRunWrite(w2, personalFolderId) == firstRunWriteR(w2, personalFolderId, 0)

\* find or create the root container and the 'Personal' folder, then write the
\* default workspace: _firstRunSetup from "arcSpacesRootId from local storage" on
firstRunDefaultR(w, k) ==
  Bind(firstRunRoot(w),
  LAMBDA w1 :
    With(FilterSeq(BkFolderChildren(w1.b, w1.e.arcSpacesRootId),
                   {n \in DOMAIN w1.b.nodes : w1.b.nodes[n].title = PERSONAL}),
    LAMBDA personal :
      IF personal # <<>> THEN firstRunWriteR(w1, Head(personal), k)
      ELSE Bind(bookmarkCreate(w1, w1.e.arcSpacesRootId, PERSONAL, NoUrl),
                LAMBDA w2 : firstRunWriteR(w2, Created(w2), k))))

firstRunDefault(w) == firstRunDefaultR(w, 0)

\* meaningful content: more than one subfolder, or one subfolder with children
hasContent(b, subfolders) ==
  \/ Len(subfolders) > 1
  \/ Len(subfolders) = 1 /\ Len(BkChildren(b, subfolders[1])) > 0

\* _firstRunSetup after its delay: the second look at the replicated
\* partition, orphan recovery, recovery from folders, then the default
firstRunAfterDelayR(w, skipBookmarkRecovery, k) ==
  LET delayedMeta == getWorkspaceMeta(w)
      delayedV1 == getWorkspaces(w)
      orphanedKeys == discoverAllWorkspaceKeys(w)
      recoveredOrder == IF DefaultId \in Range(orphanedKeys)
                        THEN <<DefaultId>> \o FilterSeq(orphanedKeys, Range(orphanedKeys) \ {DefaultId})
                        ELSE orphanedKeys
      recoveredMeta == [order |-> recoveredOrder, version |-> 2]
  IN IF delayedMeta.version = 2 THEN loadV2(w, delayedMeta)
     ELSE IF delayedV1.present THEN migrateV1toV2(w, delayedV1)
     ELSE IF Len(orphanedKeys) > 0
          THEN Bind(saveWorkspaceMeta(w, recoveredMeta), LAMBDA w1 : loadV2(w1, recoveredMeta))
     ELSE With(findBestArcSpacesRoot(w),
          LAMBDA bestRootId :
            LET subfolders == BkFolderChildren(w.b, bestRootId)
            IN IF /\ ~skipBookmarkRecovery /\ bestRootId # NoNode /\ Len(subfolders) > 0
                  /\ hasContent(w.b, subfolders)
               THEN Bind(rebuildFromBookmarkFolders(w, bestRootId, subfolders),
                    LAMBDA w1 :
                      [w1 EXCEPT !.e.reinstallMeta = [order |-> w1.e.order, version |-> 2],
                                 !.e.needsReinstallPrompt = TRUE])
               ELSE firstRunDefaultR(w, k))

firstRunAfterDelay(w, skipBookmarkRecovery) == firstRunAfterDelayR(w, skipBookmarkRecovery, 0)

\* _firstRunSetup on the world w1 its first look reads
firstRunLook(w1, skipBookmarkRecovery, k) ==
  LET freshMeta == getWorkspaceMeta(w1)
      freshV1 == getWorkspaces(w1)
  IN IF freshMeta.version = 2 THEN loadV2(w1, freshMeta)
     ELSE IF freshV1.present THEN migrateV1toV2(w1, freshV1)
     ELSE firstRunAfterDelayR(Arrive(w1, k, 2), skipBookmarkRecovery, k)

firstRunSetupR(w, skipBookmarkRecovery, k) ==
  firstRunLook(Arrive(w, k, 1), skipBookmarkRecovery, k)

firstRunSetup(w, skipBookmarkRecovery) == firstRunSetupR(w, skipBookmarkRecovery, 0)

----------------------------------------------------------------------------
(* Validation *)

RECURSIVE ValidateLoop(_, _, _)
\* the for loop of _validateFolders over the snapshot `todo` of the order;
\* acc = [changed, deletedIds]
ValidateLoop(w, todo, acc) ==
  IF todo = <<>> THEN [w |-> w, acc |-> acc]
  ELSE LET id == Head(todo)
           without == FilterSeq(w.e.order, Range(w.e.order) \ {id})
       IN IF ~(id \in DOMAIN w.e.items)
          THEN ValidateLoop([w EXCEPT !.e.order = without], Tail(todo),
                            [acc EXCEPT !.changed = TRUE])
          ELSE IF ~HasRoot(w.e.items[id]) THEN ValidateLoop(w, Tail(todo), acc)
          ELSE IF BkExists(w.b, w.e.items[id].rootFolderId) THEN ValidateLoop(w, Tail(todo), acc)
          ELSE ValidateLoop([w EXCEPT !.e.items = DropKey(@, id),
                                      !.e.order = without,
                                      !.e.localState.rootFolderIds = DropKey(@, id)],
                            Tail(todo),
                            [changed |-> TRUE, deletedIds |-> Append(acc.deletedIds, id)])

RECURSIVE DeleteItems(_, _)
DeleteItems(w, ids) ==
  IF ids = <<>> THEN w ELSE DeleteItems(deleteWorkspaceItem(w, Head(ids)), Tail(ids))

validateFolders(w) ==
  IF w.err \/ Len(w.e.order) = 0 THEN w
  ELSE With(ValidateLoop(w, w.e.order, [changed |-> FALSE, deletedIds |-> <<>>]),
       LAMBDA r :
         IF ~r.acc.changed THEN r.w
         ELSE IF Len(r.w.e.order) = 0 THEN firstRunSetup(r.w, FALSE)
         ELSE LET w2 == IF ~(r.w.e.localState.activeWorkspaceId \in DOMAIN r.w.e.items)
                        THEN [r.w EXCEPT !.e.localState.activeWorkspaceId = First(r.w.e.order)]
                        ELSE r.w
              IN DeleteItems(saveLocal(saveMeta(w2, TRUE)), r.acc.deletedIds))

----------------------------------------------------------------------------
(* Folder reconciliation *)

\* find or create the root container and remember it locally
resolveRoot(w) ==
  With(findBestArcSpacesRoot(w),
  LAMBDA bestRootId :
    IF bestRootId # NoNode
    THEN saveArcSpacesRootIdLocal([w EXCEPT !.e.arcSpacesRootId = bestRootId], bestRootId)
    ELSE Bind(bookmarkCreate(w, getOtherBookmarksId(w), ARC_SPACES, NoUrl),
         LAMBDA wc :
           saveArcSpacesRootIdLocal([wc EXCEPT !.e.arcSpacesRootId = Created(wc)], Created(wc))))

\* variant of the folder assignment that leaves the local folder map alone
attachFolderInMemoryOnly(w, id, folderId) ==
  [w EXCEPT !.e.items[id] = WithRoot(@, folderId)]

\* ws.rootFolderId = folderId; this._localState.rootFolderIds[id] = folderId
attachFolder(w, id, folderId) ==
  [w EXCEPT !.e.items[id] = WithRoot(@, folderId),
            !.e.localState.rootFolderIds = PutKey(@, id, folderId)]

\* the folders of localFolders a workspace may take by name
NameMatches(w, ws, localFolders, claimed) ==
  LET expectedTitle == buildFolderTitle(ws.name, ws.emoji)
  IN FilterSeq(localFolders,
       {c \in Range(localFolders) :
          /\ ~(c \in claimed)
          /\ \/ w.b.nodes[c].title = expectedTitle
             \/ w.b.nodes[c].title = ws.name
             \/ extractEmojiPrefix(w.b.nodes[c].title).name = ws.name})

RECURSIVE ReconcilePass1(_, _, _, _)
\* pass 1 over the ids `todo`; acc = [claimed, unmatched, changed]
ReconcilePass1(w, todo, localFolders, acc) ==
  IF todo = <<>> THEN [w |-> w, acc |-> acc]
  ELSE LET id == Head(todo)
       IN IF ~(id \in DOMAIN w.e.items) THEN ReconcilePass1(w, Tail(todo), localFolders, acc)
          ELSE LET ws == w.e.items[id]
                   match == NameMatches(w, ws, localFolders, acc.claimed)
               IN IF HasRoot(ws) /\ BkExists(w.b, ws.rootFolderId)
                  THEN ReconcilePass1(w, Tail(todo), localFolders,
                         [acc EXCEPT !.claimed = @ \cup {ws.rootFolderId}])
                  ELSE IF match # <<>>
                  THEN ReconcilePass1(attachFolder(w, id, Head(match)), Tail(todo), localFolders,
                         [acc EXCEPT !.claimed = @ \cup {Head(match)}, !.changed = TRUE])
                  ELSE ReconcilePass1(w, Tail(todo), localFolders,
                         [acc EXCEPT !.unmatched = Append(@, id)])

RECURSIVE ReconcilePass2(_, _, _, _)
\* pass 2 from index i (from 0) of the unmatched workspaces on
ReconcilePass2(w, unmatched, unclaimedFolders, i) ==
  IF i >= Len(unmatched) \/ w.err THEN w
  ELSE LET wsId == unmatched[i + 1]
           ws == w.e.items[wsId]
           title == buildFolderTitle(ws.name, ws.emoji)
       IN IF i < Len(unclaimedFolders)
          THEN LET folder == unclaimedFolders[i + 1]
                   w1 == attachFolder(w, wsId, folder)
               IN ReconcilePass2([w1 EXCEPT !.b = BkRename(@, folder, title), !.writes = @ + 1],
                                 unmatched, unclaimedFolders, i + 1)
          ELSE LET wc == bookmarkCreate(w, w.e.arcSpacesRootId, title, NoUrl)
               IN ReconcilePass2(IF wc.err THEN wc ELSE attachFolder(wc, wsId, Created(wc)),
                                 unmatched, unclaimedFolders, i + 1)

\* variant of the two passes in which pass 2 pairs no folder: every workspace
\* pass 1 left unmatched gets a new folder
reconcilePassesCreating(w2, localFolders) ==
  With(ReconcilePass1(w2, w2.e.order, localFolders,
                      [claimed |-> {}, unmatched |-> <<>>, changed |-> FALSE]),
  LAMBDA p1 :
    Bind(ReconcilePass2(p1.w, p1.acc.unmatched, <<>>, 0),
    LAMBDA w3 :
      IF p1.acc.changed \/ Len(p1.acc.unmatched) > 0 THEN saveLocal(w3) ELSE w3))

\* the two passes of _reconcileFolders over the folders of the root container
reconcilePasses(w2, localFolders) ==
  With(ReconcilePass1(w2, w2.e.order, localFolders,
                      [claimed |-> {}, unmatched |-> <<>>, changed |-> FALSE]),
  LAMBDA p1 :
    Bind(ReconcilePass2(p1.w, p1.acc.unmatched,
                        FilterSeq(localFolders, Range(localFolders) \ p1.acc.claimed), 0),
    LAMBDA w3 :
      IF p1.acc.changed \/ Len(p1.acc.unmatched) > 0 THEN saveLocal(w3) ELSE w3))

reconcileFolders(w) ==
  IF Len(w.e.order) = 0 THEN w
  ELSE Bind(IF w.e.arcSpacesRootId = NoNode THEN resolveRoot(w)
            ELSE IF ~BkExists(w.b, w.e.arcSpacesRootId) THEN resolveRoot(w)
            ELSE w,
       LAMBDA w1 :
         reconcilePasses(
           IF w1.e.localNull
           THEN [w1 EXCEPT !.e.localState =
                              [activeWorkspaceId |-> First(w1.e.order), rootFolderIds |-> EmptyMap],
                           !.e.localNull = FALSE]
           ELSE w1,
           BkFolderChildren(w1.b, w1.e.arcSpacesRootId)))

----------------------------------------------------------------------------
(* Pinned-item reconciliation *)

RECURSIVE WalkTree(_, _)
RECURSIVE WalkAll(_, _)
\* the nodes walkTree visits from node n, in visiting order
WalkTree(b, n) == <<n>> \o WalkAll(b, BkChildren(b, n))
WalkAll(b, kids) ==
  IF kids = <<>> THEN <<>> ELSE WalkTree(b, Head(kids)) \o WalkAll(b, Tail(kids))

\* the last element of a non-empty sequence: a later Map.set() replaces an earlier one
Last(q) == q[Len(q)]

\* localByUrl.get(url): NoNode when absent
LocalByUrl(b, rootFolderId, url) ==
  LET hits == FilterSeq(WalkTree(b, rootFolderId),
                        {n \in DOMAIN b.nodes : b.nodes[n].url # NoUrl /\ b.nodes[n].url = url})
  IN IF hits = <<>> THEN NoNode ELSE Last(hits)

\* localFoldersByTitle.get(title): NoNode when absent
LocalFolderByTitle(b, rootFolderId, title) ==
  LET hits == FilterSeq(WalkTree(b, rootFolderId),
                        {n \in DOMAIN b.nodes :
                           /\ b.nodes[n].url = NoUrl /\ b.nodes[n].title # <<>>
                           /\ n # rootFolderId /\ b.nodes[n].title = title})
  IN IF hits = <<>> THEN NoNode ELSE Last(hits)

\* { id, url: node.url, title: node.title }
PinMeta(b, n) == [id |-> n, url |-> b.nodes[n].url, title |-> b.nodes[n].title]

RECURSIVE PinIds(_)
\* pinnedMeta.map(m => m.id)
PinIds(metas) == IF metas = <<>> THEN <<>> ELSE <<Head(metas).id>> \o PinIds(Tail(metas))

RECURSIVE ReconcileMetas(_, _, _, _)
\* the loop over pinnedMeta; acc = [meta, changed]
ReconcileMetas(b, rootFolderId, metas, acc) ==
  IF metas = <<>> THEN acc
  ELSE LET meta == Head(metas)
           byUrl == IF meta.url # NoUrl THEN LocalByUrl(b, rootFolderId, meta.url) ELSE NoNode
           matched == IF byUrl # NoNode THEN byUrl
                      ELSE IF meta.title # <<>> /\ meta.url = NoUrl
                           THEN LocalFolderByTitle(b, rootFolderId, meta.title)
                           ELSE NoNode
       IN IF BkExists(b, meta.id)
          THEN ReconcileMetas(b, rootFolderId, Tail(metas),
                              [acc EXCEPT !.meta = Append(@, PinMeta(b, meta.id))])
          ELSE IF matched # NoNode
          THEN ReconcileMetas(b, rootFolderId, Tail(metas),
                              [meta |-> Append(acc.meta, PinMeta(b, matched)), changed |-> TRUE])
          ELSE ReconcileMetas(b, rootFolderId, Tail(metas), [acc EXCEPT !.changed = TRUE])

\* variant of a workspace's turn that fills pinnedBookmarkIds and leaves the
\* entries as they are
reconcilePinsOfKeeping(w, wsId) ==
  LET ws0 == w.e.items[wsId]
  IN [w |-> IF "pinnedBookmarkIds" \in DOMAIN ws0 THEN w
            ELSE [w EXCEPT !.e.items[wsId] =
                             PutKey(ws0, "pinnedBookmarkIds", PinIds(ws0.pinnedBookmarks))],
      changed |-> FALSE]

\* one workspace's turn in _reconcilePinnedBookmarks; returns [w, changed]
reconcilePinsOf(w, wsId) ==
  LET ws0 == w.e.items[wsId]
      pinnedMeta == ws0.pinnedBookmarks
      ws == IF "pinnedBookmarkIds" \in DOMAIN ws0 THEN ws0
            ELSE PutKey(ws0, "pinnedBookmarkIds", PinIds(pinnedMeta))
      w1 == [w EXCEPT !.e.items[wsId] = ws]
      r == ReconcileMetas(w.b, ws.rootFolderId, pinnedMeta, [meta |-> <<>>, changed |-> FALSE])
      validIds == FilterSeq(ws.pinnedBookmarkIds, {n \in DOMAIN w.b.nodes : n # NoNode})
  IN IF Len(pinnedMeta) = 0 /\ Len(ws.pinnedBookmarkIds) = 0 THEN [w |-> w1, changed |-> FALSE]
     ELSE IF ~HasRoot(ws) \/ ~BkExists(w.b, ws.rootFolderId) THEN [w |-> w1, changed |-> FALSE]
     ELSE IF Len(pinnedMeta) > 0
     THEN IF r.changed \/ Len(r.meta) # Len(ws.pinnedBookmarkIds)
          THEN [w |-> saveItem([w1 EXCEPT !.e.items[wsId].pinnedBookmarkIds = PinIds(r.meta),
                                          !.e.items[wsId].pinnedBookmarks = r.meta], wsId),
                changed |-> TRUE]
          ELSE [w |-> w1, changed |-> FALSE]
     ELSE IF validIds # ws.pinnedBookmarkIds
          THEN [w |-> saveItem([w1 EXCEPT !.e.items[wsId].pinnedBookmarkIds = validIds], wsId),
                changed |-> TRUE]
          ELSE [w |-> w1, changed |-> FALSE]

RECURSIVE ReconcilePinsLoop(_, _, _)
ReconcilePinsLoop(w, todo, anyChanged) ==
  IF todo = <<>> \/ w.err THEN [w |-> w, anyChanged |-> anyChanged]
  ELSE IF ~(Head(todo) \in DOMAIN w.e.items) THEN ReconcilePinsLoop(w, Tail(todo), anyChanged)
  ELSE With(reconcilePinsOf(w, Head(todo)),
            LAMBDA r : ReconcilePinsLoop(r.w, Tail(todo), anyChanged \/ r.changed))

reconcilePinnedBookmarks(w) ==
  IF Len(w.e.order) = 0 THEN w
  ELSE With(ReconcilePinsLoop(w, w.e.order, FALSE),
            LAMBDA r : IF r.anyChanged THEN saveLocal(r.w) ELSE r.w)

----------------------------------------------------------------------------
(* init, continueInit, resetAndSetup *)

RECURSIVE AttachRoots(_, _)
\* attach rootFolderIds from the local state to the in-memory items
AttachRoots(w, todo) ==
  IF todo = <<>> THEN w
  ELSE LET wsId == Head(todo)
       IN IF wsId \in DOMAIN w.e.items /\ wsId \in DOMAIN w.e.localState.rootFolderIds
          THEN AttachRoots([w EXCEPT !.e.items[wsId] =
                                        WithRoot(@, w.e.localState.rootFolderIds[wsId])],
                           Tail(todo))
          ELSE AttachRoots(w, Tail(todo))

\* _completeInit up to the reconciliations: load the local state, fall back
\* to the first workspace, attach the stored folder ids
loadLocalState(w) ==
  LET rootId == ArcSpacesRootIdLocal(w)
      w0 == getArcSpacesRootIdLocal(w)
      w1 == [w0 EXCEPT !.e.localState = getWorkspaceLocal(w0),
                       !.e.localNull = FALSE,
                       !.e.arcSpacesRootId = rootId]
      active == w1.e.localState.activeWorkspaceId
      w2 == IF active = NoId \/ ~(active \in DOMAIN w1.e.items)
            THEN [w1 EXCEPT !.e.localState.activeWorkspaceId = First(w1.e.order)]
            ELSE w1
  IN AttachRoots(w2, w2.e.order)

completeInit(w) ==
  Bind(w, LAMBDA w0 :
    Bind(reconcileFolders(loadLocalState(w0)),
         LAMBDA w3 : validateFolders(reconcilePinnedBookmarks(w3))))

\* one attempt of init(): the body of its try block
initAttemptR(w0, k) ==
  LET meta == getWorkspaceMeta(w0)
      localCheck == getWorkspaceLocal(w0)
      isReinstall == /\ localCheck.activeWorkspaceId = NoId
                     /\ DOMAIN localCheck.rootFolderIds = {}
      oldData == getWorkspaces(w0)
  IN IF meta.version = 2
     THEN IF isReinstall
          THEN Bind(loadV2(w0, meta),
                    LAMBDA w1 : [w1 EXCEPT !.e.reinstallMeta = meta,
                                           !.e.needsReinstallPrompt = TRUE])
          ELSE completeInit(loadV2(w0, meta))
     ELSE IF oldData.present THEN completeInit(migrateV1toV2(w0, oldData))
     ELSE Bind(firstRunSetupR(w0, FALSE, k),
               LAMBDA w1 : IF w1.e.needsReinstallPrompt THEN w1 ELSE completeInit(w1))

initAttempt(w0) == initAttemptR(w0, 0)

\* where a handler of the init family leaves the engine
Settle(w) ==
  [w EXCEPT !.e.phase = IF w.err THEN "failed"
                        ELSE IF w.e.needsReinstallPrompt THEN "paused" ELSE "ready"]

MAX_RETRIES == 3

RETRY_DELAY_MS == 500

RECURSIVE InitRetryFourTimes(_, _)
\* variant of the retry loop that allows one more attempt
InitRetryFourTimes(w, attempt) ==
  With(initAttempt([w EXCEPT !.err = FALSE, !.attempts = Append(@, attempt)]),
       LAMBDA r : IF r.err /\ attempt <= MAX_RETRIES
                  THEN InitRetryFourTimes([r EXCEPT !.delays = Append(@, RETRY_DELAY_MS * attempt)],
                                          attempt + 1)
                  ELSE [r EXCEPT !.errAt = IF r.err THEN attempt ELSE 0])

RECURSIVE InitRetry(_, _)
\* the retry loop of init() from attempt `attempt` on
InitRetry(w, attempt) ==
  With(initAttempt([w EXCEPT !.err = FALSE, !.attempts = Append(@, attempt)]),
       LAMBDA r : IF r.err /\ attempt < MAX_RETRIES
                  THEN InitRetry([r EXCEPT !.delays = Append(@, RETRY_DELAY_MS * attempt)],
                                 attempt + 1)
                  ELSE [r EXCEPT !.errAt = IF r.err THEN attempt ELSE 0])

init(w) ==
  Settle(InitRetry([w EXCEPT !.e.needsReinstallPrompt = FALSE, !.e.reinstallMeta = NoMeta], 1))

\* init() during which the writes of another device arrive at point k; a
\* failed first attempt is retried as in init()
initR(w, k) ==
  With(initAttemptR([w EXCEPT !.e.needsReinstallPrompt = FALSE, !.e.reinstallMeta = NoMeta,
                             !.err = FALSE], k),
       LAMBDA r : Settle(IF r.err THEN InitRetry(r, 2) ELSE r))

\* variant of the adoption colour that ignores the workspaces already there
adoptColorFromStart(colorOffset, i) == WORKSPACE_COLORS[(i % Len(WORKSPACE_COLORS)) + 1]

\* WORKSPACE_COLORS[(colorOffset + i) % WORKSPACE_COLORS.length]
adoptColor(colorOffset, i) ==
  WORKSPACE_COLORS[((colorOffset + i) % Len(WORKSPACE_COLORS)) + 1]

RECURSIVE AdoptLoop(_, _, _, _)
\* the for loop of _adoptOrphanedBookmarkFolders from index i (from 0) on
AdoptLoop(w, unclaimed, colorOffset, i) ==
  IF i >= Len(unclaimed) THEN w
  ELSE LET folder == unclaimed[i + 1]
           wsId == w.clock + 1
           en == extractEmojiPrefix(w.b.nodes[folder].title)
           workspace == Workspace(wsId, en.name, en.emoji, "folder",
                                  adoptColor(colorOffset, i),
                                  loadShortcutsFromBookmarks(w, folder))
           w1 == [w EXCEPT !.clock = @ + 1,
                           !.e.items = PutKey(@, wsId, WithRoot(workspace, folder)),
                           !.e.order = Append(@, wsId),
                           !.e.localState.rootFolderIds = PutKey(@, wsId, folder)]
       IN Bind(saveWorkspaceItem(w1, wsId, syncableItem(workspace)),
               LAMBDA w2 : AdoptLoop(w2, unclaimed, colorOffset, i + 1))

\* an adoption that adopts no folder
adoptNothing(w) == w

adoptOrphanedBookmarkFolders(w) ==
  LET rootId == IF w.e.arcSpacesRootId # NoNode THEN w.e.arcSpacesRootId
                ELSE findBestArcSpacesRoot(w)
      subfolders == BkFolderChildren(w.b, rootId)
      claimedIds == {w.e.items[id].rootFolderId :
                       id \in {x \in Range(w.e.order) \cap DOMAIN w.e.items : HasRoot(w.e.items[x])}}
      unclaimed == FilterSeq(subfolders, Range(subfolders) \ claimedIds)
  IN IF rootId = NoNode \/ Len(subfolders) = 0 \/ Len(unclaimed) = 0 THEN w
     ELSE saveLocal(saveMeta(AdoptLoop(w, unclaimed, Len(w.e.order), 0), FALSE))

continueInit(w) ==
  Settle(Bind(completeInit([w EXCEPT !.e.needsReinstallPrompt = FALSE,
                                     !.e.reinstallMeta = NoMeta]),
              adoptOrphanedBookmarkFolders))

resetAndSetup(w) ==
  LET w0 == [w EXCEPT !.e.needsReinstallPrompt = FALSE]
      w1 == With(DeleteItems(w0, w0.e.reinstallMeta.order),
                 LAMBDA v : syncRemove(v, [Attempted(v) EXCEPT !.s.meta = NoMeta,
                                                               !.writes = @ + 1]))
      w2 == [w1 EXCEPT !.e.reinstallMeta = NoMeta, !.e.order = <<>>, !.e.items = EmptyMap,
                       !.e.localState = EmptyLocal, !.e.localNull = TRUE,
                       !.e.arcSpacesRootId = NoNode]
  IN Settle(Bind(firstRunSetup(w2, TRUE), completeInit))

----------------------------------------------------------------------------
(* Getters and workspace CRUD *)

\* getAll(): the ids of the records it returns, in order
getAll(e) == FilterSeq(e.order, DOMAIN e.items)

\* the id of the record getActive() returns, NoId when it returns null
getActive(e) ==
  IF e.localNull \/ e.localState.activeWorkspaceId = NoId THEN NoId
  ELSE IF e.localState.activeWorkspaceId \in DOMAIN e.items
       THEN e.localState.activeWorkspaceId ELSE NoId

\* variant of switchTo that also saves the order item
switchToSavingMeta(w, workspaceId) ==
  IF ~(workspaceId \in DOMAIN w.e.items) THEN w
  ELSE saveMeta(saveLocal([w EXCEPT !.e.localState.activeWorkspaceId = workspaceId]), TRUE)

switchTo(w, workspaceId) ==
  IF ~(workspaceId \in DOMAIN w.e.items) THEN w
  ELSE saveLocal([w EXCEPT !.e.localState.activeWorkspaceId = workspaceId])

\* create() once the root container is known: make the folder, the record,
\* and save
createIn(w1, name, colorInfo) ==
  Bind(bookmarkCreate(w1, w1.e.arcSpacesRootId, name, NoUrl),
  LAMBDA w2 :
    LET id == w2.clock + 1
        folder == Created(w2)
        workspace == Workspace(id, name, NoEmoji, "folder", colorInfo, <<>>)
        w3 == [w2 EXCEPT !.clock = id,
                         !.e.items = PutKey(@, id, WithRoot(workspace, folder)),
                         !.e.order = Append(@, id),
                         !.e.localState.rootFolderIds = PutKey(@, id, folder)]
    IN saveLocal(saveMeta(saveItem(w3, id), FALSE)))

create(w, name, colorScheme) ==
  Bind(IF w.e.arcSpacesRootId = NoNode THEN reconcileFolders(w) ELSE w,
  LAMBDA w1 :
    IF w1.e.arcSpacesRootId = NoNode THEN Throw(w1)
    ELSE createIn(w1, name,
                  IF colorScheme \in Range(WORKSPACE_COLORS) THEN colorScheme
                  ELSE WORKSPACE_COLORS[2]))

rename(w, workspaceId, newName) ==
  IF ~(workspaceId \in DOMAIN w.e.items) THEN w
  ELSE LET w1 == [w EXCEPT !.e.items[workspaceId].name = newName]
           ws == w1.e.items[workspaceId]
       IN IF ~HasRoot(ws) \/ ~BkExists(w1.b, ws.rootFolderId) THEN Throw(w1)
          ELSE saveItem([w1 EXCEPT !.b = BkRename(@, ws.rootFolderId,
                                                  buildFolderTitle(newName, ws.emoji)),
                                   !.writes = @ + 1],
                        workspaceId)

changeColor(w, workspaceId, colorScheme) ==
  IF ~(workspaceId \in DOMAIN w.e.items) THEN w
  ELSE IF ~(colorScheme \in Range(WORKSPACE_COLORS)) THEN w
  ELSE saveItem([w EXCEPT !.e.items[workspaceId].colorScheme = colorScheme], workspaceId)

reorder(w, newOrder) ==
  IF Len(newOrder) # Len(w.e.order) THEN w
  ELSE IF ~(Range(newOrder) \subseteq Range(w.e.order)) THEN w
  ELSE saveMeta([w EXCEPT !.e.order = newOrder], FALSE)

setEmoji(w, workspaceId, emoji) ==
  IF ~(workspaceId \in DOMAIN w.e.items) THEN w
  ELSE LET w1 == [w EXCEPT !.e.items[workspaceId].emoji = emoji]
           ws == w1.e.items[workspaceId]
           w2 == IF HasRoot(ws)
                 THEN [w1 EXCEPT !.b = BkRename(@, ws.rootFolderId, buildFolderTitle(ws.name, emoji)),
                                  !.writes = @ + 1]
                 ELSE w1
       IN saveItem(w2, workspaceId)

\* variant of delete whose order write merges with the replicated order
deleteMerging(w, workspaceId) ==
  IF Len(w.e.order) <= 1 THEN w
  ELSE IF ~(workspaceId \in DOMAIN w.e.items) THEN w
  ELSE LET ws == w.e.items[workspaceId]
           w1 == IF HasRoot(ws) THEN [w EXCEPT !.b = BkRemoveTree(@, ws.rootFolderId), !.writes = @ + 1]
                 ELSE w
           order == FilterSeq(w.e.order, Range(w.e.order) \ {workspaceId})
           w2 == [w1 EXCEPT !.e.items = DropKey(@, workspaceId),
                            !.e.order = order,
                            !.e.localState.rootFolderIds = DropKey(@, workspaceId),
                            !.e.localState.activeWorkspaceId =
                               IF @ = workspaceId THEN First(order) ELSE @]
           w3 == [w2 EXCEPT !.g.deleted = @ \cup {workspaceId}]
       IN saveLocal(saveMeta(deleteWorkspaceItem(w3, workspaceId), FALSE))

delete(w, workspaceId) ==
  IF Len(w.e.order) <= 1 THEN w
  ELSE IF ~(workspaceId \in DOMAIN w.e.items) THEN w
  ELSE LET ws == w.e.items[workspaceId]
           w1 == IF HasRoot(ws) THEN [w EXCEPT !.b = BkRemoveTree(@, ws.rootFolderId), !.writes = @ + 1]
                 ELSE w
           order == FilterSeq(w.e.order, Range(w.e.order) \ {workspaceId})
           w2 == [w1 EXCEPT !.e.items = DropKey(@, workspaceId),
                            !.e.order = order,
                            !.e.localState.rootFolderIds = DropKey(@, workspaceId),
                            !.e.localState.activeWorkspaceId =
                               IF @ = workspaceId THEN First(order) ELSE @]
           w3 == [w2 EXCEPT !.g.deleted = @ \cup {workspaceId}]
       IN saveLocal(saveMeta(deleteWorkspaceItem(w3, workspaceId), TRUE))

----------------------------------------------------------------------------
(* Pinned bookmarks and shortcuts of the active workspace *)

\* ws.pinnedBookmarkIds, made from the metadata when the record has none
PinnedIdsOf(ws) ==
  IF "pinnedBookmarkIds" \in DOMAIN ws THEN ws.pinnedBookmarkIds ELSE PinIds(ws.pinnedBookmarks)

\* variant of pinBookmark that appends the entry and leaves the ids alone
pinBookmarkEntryOnly(w, bookmarkId) ==
  LET a == getActive(w.e)
      ws == w.e.items[a]
      ids == PinnedIdsOf(ws)
  IN IF a = NoId THEN w
     ELSE IF bookmarkId \in Range(ids) THEN w
     ELSE saveItem([w EXCEPT !.e.items[a] =
                       [PutKey(ws, "pinnedBookmarkIds", ids)
                          EXCEPT !.pinnedBookmarks = Append(@, PinMeta(w.b, bookmarkId))]], a)

pinBookmark(w, bookmarkId) ==
  LET a == getActive(w.e)
      ws == w.e.items[a]
      ids == PinnedIdsOf(ws)
      meta == IF BkExists(w.b, bookmarkId) THEN PinMeta(w.b, bookmarkId)
              ELSE [id |-> bookmarkId, url |-> NoUrl, title |-> <<>>]
  IN IF a = NoId THEN w
     ELSE IF bookmarkId \in Range(ids)
          THEN [w EXCEPT !.e.items[a] = PutKey(ws, "pinnedBookmarkIds", ids)]
     ELSE saveItem([w EXCEPT !.e.items[a] =
                       [PutKey(ws, "pinnedBookmarkIds", Append(ids, bookmarkId))
                          EXCEPT !.pinnedBookmarks = Append(@, meta)]], a)

unpinBookmark(w, bookmarkId) ==
  LET a == getActive(w.e)
      ws == w.e.items[a]
      keepMeta == {m \in Range(ws.pinnedBookmarks) : m.id # bookmarkId}
  IN IF a = NoId THEN w
     ELSE saveItem([w EXCEPT !.e.items[a] =
                       [PutKey(ws, "pinnedBookmarkIds",
                               FilterSeq(PinnedIdsOf(ws), Range(PinnedIdsOf(ws)) \ {bookmarkId}))
                          EXCEPT !.pinnedBookmarks = FilterSeq(@, keepMeta)]], a)

isPinned(e, bookmarkId) ==
  getActive(e) # NoId /\ bookmarkId \in Range(PinnedIdsOf(e.items[getActive(e)]))

getShortcuts(e) == IF getActive(e) = NoId THEN <<>> ELSE e.items[getActive(e)].shortcuts

RECURSIVE RemoveNodes(_, _)
\* bookmarkService.remove(id) for every id of the sequence
RemoveNodes(b, ids) ==
  IF ids = <<>> THEN b
  ELSE RemoveNodes([b EXCEPT !.nodes = DropKey(@, Head(ids))], Tail(ids))

RECURSIVE AddShortcutLinks(_, _, _, _)
\* create a link for every shortcut whose url is not in `have`
AddShortcutLinks(w, folder, shortcuts, have) ==
  IF shortcuts = <<>> \/ w.err THEN w
  ELSE IF Head(shortcuts).url \in have
       THEN AddShortcutLinks(w, folder, Tail(shortcuts), have)
       ELSE AddShortcutLinks(bookmarkCreate(w, folder, Head(shortcuts).title, Head(shortcuts).url),
                             folder, Tail(shortcuts), have)

syncShortcutsToBookmarks(w, wsId) ==
  IF w.err \/ ~(wsId \in DOMAIN w.e.items) THEN w
  ELSE IF ~HasRoot(w.e.items[wsId]) THEN w
  ELSE LET ws == w.e.items[wsId]
           shortcuts == ws.shortcuts
           found == ShortcutsFolder(w.b, ws.rootFolderId)
           w1 == IF found # NoNode THEN w
                 ELSE bookmarkCreate(w, ws.rootFolderId, SHORTCUTS_FOLDER_NAME, NoUrl)
           folder == IF found # NoNode THEN found ELSE Created(w1)
           existing == FilterSeq(BkChildren(w1.b, folder),
                                 {n \in DOMAIN w1.b.nodes : w1.b.nodes[n].url # NoUrl})
           have == {w1.b.nodes[n].url : n \in Range(existing)}
           wantedUrls == {shortcuts[i].url : i \in 1..Len(shortcuts)}
           \* existingByUrl keeps, for each url, the last link that has it
           byUrl == {n \in Range(existing) :
                       \A m \in Range(existing) : w1.b.nodes[m].url = w1.b.nodes[n].url => m <= n}
           stale == FilterSeq(existing, {n \in byUrl : ~(w1.b.nodes[n].url \in wantedUrls)})
       IN IF Len(shortcuts) = 0
          THEN IF found # NoNode THEN [w EXCEPT !.b = BkRemoveTree(@, found), !.writes = @ + 1] ELSE w
          ELSE IF w1.err THEN w1
          ELSE AddShortcutLinks([w1 EXCEPT !.b = RemoveNodes(@, stale), !.writes = @ + Len(stale)], folder, shortcuts, have)

MAX_SHORTCUTS == 8

addShortcut(w, url, title) ==
  LET a == getActive(w.e)
      ws == w.e.items[a]
  IN IF a = NoId THEN w
     ELSE IF \E i \in 1..Len(ws.shortcuts) : ws.shortcuts[i].url = url THEN w
     ELSE IF Len(ws.shortcuts) >= MAX_SHORTCUTS THEN w
     ELSE syncShortcutsToBookmarks(
            saveItem([w EXCEPT !.e.items[a].shortcuts = Append(@, [url |-> url, title |-> title])], a),
            a)

\* variant of removeShortcut that leaves the folder store alone
removeShortcutUnsynced(w, url) ==
  LET a == getActive(w.e)
      keep == {s \in Range(w.e.items[a].shortcuts) : s.url # url}
  IN IF a = NoId THEN w
     ELSE saveItem([w EXCEPT !.e.items[a].shortcuts = FilterSeq(@, keep)], a)

removeShortcut(w, url) ==
  LET a == getActive(w.e)
      ws == w.e.items[a]
      keep == {s \in Range(ws.shortcuts) : s.url # url}
  IN IF a = NoId THEN w
     ELSE syncShortcutsToBookmarks(
            saveItem([w EXCEPT !.e.items[a].shortcuts = FilterSeq(@, keep)], a), a)

----------------------------------------------------------------------------
(* The state machine: two devices on one replicated partition.  A handler   *)
(* runs from its call to its return without another handler in between.    *)

\* the world a handler of device d starts in; `writes` counts the writes the
\* handler makes to the partitions and to the folder store.  The underlying
\* stores work: no replicated write is rejected (fault), no read and no local
\* write fails.  attempts, delays and errAt are the attempts init() started,
\* the delays it waited and the attempt whose exception it threw; settings is the
\* "settings" item of the replicated partition, which the engine never reads
World(d) ==
  [e |-> dev[d].e, l |-> dev[d].l, b |-> dev[d].b, s |-> sync, clock |-> clock,
   g |-> [HistEmpty EXCEPT !.deleted = hist.deleted], err |-> FALSE, writes |-> 0,
   fault |-> {}, syncOps |-> 0, readFault |-> FALSE, localFault |-> FALSE,
   attempts |-> <<>>, delays |-> <<>>, errAt |-> 0, settings |-> NoSettings]

\* the handler that device d ran has left the world w; hist becomes the
\* history of that handler
CommitEngine(d, w) ==
  /\ w.clock <= MaxIds
  /\ w.b.next <= MaxNodes + 1
  /\ sync' = w.s
  /\ dev' = [dev EXCEPT ![d] = [e |-> w.e, l |-> w.l, b |-> w.b]]
  /\ clock' = w.clock
  /\ hist' = w.g

\* a handler that no App is concerned with
Commit(d, w) == CommitEngine(d, w) /\ app' = app

Ready(d) == dev[d].e.phase = "ready"

Paused(d) == dev[d].e.phase = "paused"

\* the names a user gives a new workspace
Names == {<<"Work">>}

RECURSIVE Perms(_)
\* the orderings of the set S
Perms(S) ==
  IF S = {} THEN {<<>>}
  ELSE UNION {{<<x>> \o q : q \in Perms(S \ {x})} : x \in S}

\* what a caller may pass to reorder(): the orderings of the ids it holds
ReorderInputs(e) == Perms(Range(getAll(e)))

Ids == 0..MaxIds

DoInit(d) == d \in Devices /\ Commit(d, init(World(d)))

DoContinueInit(d) == Paused(d) /\ Commit(d, continueInit(World(d)))

DoResetAndSetup(d) == Paused(d) /\ Commit(d, resetAndSetup(World(d)))

DoCreate(d) == Ready(d) /\ \E name \in Names : Commit(d, create(World(d), name, "blue"))

DoDelete(d) == Ready(d) /\ \E id \in Ids : Commit(d, delete(World(d), id))

DoReorder(d) ==
  Ready(d) /\ \E newOrder \in ReorderInputs(dev[d].e) :
                 Commit(d, reorder(World(d), newOrder))

DoSwitchTo(d) == Ready(d) /\ \E id \in Ids : Commit(d, switchTo(World(d), id))

\* a root container alone; with the default workspace's folder; and with a
\* second folder as an earlier install left them
BkRoot == BkCreate(BkEmpty, OtherBookmarksId, ARC_SPACES, NoUrl)

BkPersonal == BkCreate(BkRoot, 3, PERSONAL, NoUrl)

BkLeftover == BkCreate(BkPersonal, 3, <<"Stuff">>, NoUrl)

\* device A is a fresh install; device B is an install on a profile whose
\* folders survived an earlier uninstall
Init ==
  /\ app = AppNew
  /\ sync = SyncEmpty
  /\ dev = [d \in Devices |->
              [e |-> EngineNew, l |-> LocalEmpty, b |-> IF d = "B" THEN BkLeftover ELSE BkEmpty]]
  /\ clock = 0
  /\ hist = HistEmpty

\* two devices on one replicated partition, their handlers running one at a
\* time; device A is the one the user reorders and switches on
Next ==
  \/ \E d \in Devices : DoInit(d) \/ DoContinueInit(d) \/ DoCreate(d) \/ DoDelete(d)
  \/ DoReorder("A")
  \/ DoSwitchTo("A")

Spec == Init /\ [][Next]_vars

----------------------------------------------------------------------------
(* Properties of the two-device specification *)

\* C1: every order-item write made without skipMerge leaves in the replicated
\* order every id that was in it when the write started, and writes the
\* in-memory order followed by the ids present only remotely
C1_MergeWritePreservesRemote ==
  \A m \in hist.merges :
    /\ Range(m.before) \subseteq Range(m.after)
    /\ m.after = m.mem \o FilterSeq(m.before, Range(m.before) \ Range(m.mem))

\* a merging write found an id in the replicated order that the device did
\* not hold, and was not the only id there
C1_RemoteOnlyIdMerged ==
  \E m \in hist.merges :
    /\ Range(m.before) \ Range(m.mem) # {}
    /\ Range(m.mem) \ Range(m.before) # {}

\* the ids some device has created: the default workspace once a device has
\* initialized, and one id for every reading of the clock
CreatedIds == (1..clock) \cup (IF \E d \in Devices : dev[d].e.phase # "new" THEN {DefaultId} ELSE {})

\* C2: with the handlers running one at a time, after every mutation the
\* replicated order contains every workspace id that some device has created
\* and no device has deleted
C2_SequentialWritesCompose ==
  \A id \in CreatedIds \ hist.deleted : id \in Range(sync.meta.order)

\* C3: delete(id) on a device holding at least two workspaces removes id from
\* the in-memory order and records and from the local folder map, deletes its
\* replicated item and leaves a replicated order without id, whatever the
\* replicated order held when the write started
C3_DeleteRemovesEverywhere ==
  \A d \in Devices, id \in Ids :
    (Ready(d) /\ Len(getAll(dev[d].e)) >= 2 /\ id \in DOMAIN dev[d].e.items) =>
       LET w == delete(World(d), id)
       IN /\ ~w.err
          /\ ~(id \in Range(w.e.order))
          /\ ~(id \in DOMAIN w.e.items)
          /\ ~(id \in DOMAIN w.e.localState.rootFolderIds)
          /\ ~(id \in DOMAIN w.l.ws_local.rootFolderIds)
          /\ ~(id \in DOMAIN w.s.items)
          /\ ~(id \in Range(w.s.meta.order))
          /\ w.s.meta.order = w.e.order

\* a delete has acted on a device that held two workspaces while the other
\* device still holds the deleted id: the id is gone from the deleting device
\* and from the replicated partition
C3_DeleteActed ==
  \E d, o \in Devices, id \in hist.deleted :
    /\ d # o /\ Ready(d) /\ Ready(o)
    /\ hist.merges = {}
    /\ id \in Range(dev[o].e.order)
    /\ ~(id \in Range(dev[d].e.order)) /\ ~(id \in DOMAIN dev[d].e.items)
    /\ ~(id \in DOMAIN sync.items) /\ ~(id \in Range(sync.meta.order))
    /\ sync.meta.order = dev[d].e.order

\* C4: after a successful init and any sequence of create, delete, reorder and
\* switchTo, with another device adding ids to the replicated order in
\* between, getAll() returns at least one workspace
C4_AtLeastOneWorkspace ==
  \A d \in Devices : Ready(d) => Len(getAll(dev[d].e)) >= 1

\* C7: after a successful, non-paused init and after each later create,
\* delete, reorder or adoption, the in-memory order and the in-memory record
\* set name exactly the same ids
C7_OrderMatchesRecords ==
  \A d \in Devices : Ready(d) => Range(dev[d].e.order) = DOMAIN dev[d].e.items

\* re-initializing device d changes nothing: d has seen every replicated write
Stable(d) ==
  /\ Ready(d)
  /\ LET w == init(World(d))
     IN w.s = sync /\ w.e = dev[d].e /\ w.l = dev[d].l /\ w.b = dev[d].b

\* C6: once the mutations have stopped and every device has re-initialized
\* until nothing changes any more, all devices hold the same ids in the same
\* order, that order is the replicated order, and every id in it has a
\* replicated item
C6_EventualConvergence ==
  (\A d \in Devices : Stable(d)) =>
     /\ \A d \in Devices : dev[d].e.order = sync.meta.order
     /\ \A id \in Range(sync.meta.order) : id \in DOMAIN sync.items

\* device A runs every handler; device B only initializes and creates
NextAdding ==
  \/ DoInit("A") \/ DoCreate("A") \/ DoDelete("A") \/ DoReorder("A") \/ DoSwitchTo("A")
  \/ DoInit("B") \/ DoContinueInit("B") \/ DoCreate("B")

SpecAdding == Init /\ [][NextAdding]_vars

----------------------------------------------------------------------------
(* Initialization from arbitrary contents: one device starts on whatever   *)
(* the replicated partition, its local partition and its folder store hold *)

\* the record the initial contents hold for an id
InitItem(id) ==
  IF id = DefaultId THEN DefaultWorkspace
  ELSE Workspace(id, <<"Work">>, NoEmoji, "folder", "blue", <<>>)

\* the orders the initial contents may hold: the sequences without
\* repetition over the ids 0 and 1 (the clock starts after them)
InitOrders == {<<>>, <<0>>, <<1>>, <<0, 1>>, <<1, 0>>}

InitMetas == {NoMeta} \cup {[order |-> q, version |-> 2] : q \in InitOrders}

\* a legacy "workspaces" value: two workspaces with their folder ids
V1Sample ==
  [present |-> TRUE, activeWorkspaceId |-> 0, order |-> <<0, 1>>,
   items |-> (0 :> WithRoot(InitItem(0), 4) @@ 1 :> WithRoot(InitItem(1), 5))]

InitLocals ==
  {EmptyLocal,
   [activeWorkspaceId |-> 0, rootFolderIds |-> (0 :> 4)],
   [activeWorkspaceId |-> 1, rootFolderIds |-> (0 :> 4 @@ 1 :> 5)],
   [activeWorkspaceId |-> 0, rootFolderIds |-> (0 :> 6)]}

InitStores == {BkEmpty, BkRoot, BkPersonal, BkLeftover}

InitAny ==
  /\ app = AppNew
  /\ \E meta \in InitMetas, keys \in InitOrders, v1 \in {NoV1, V1Sample} :
       sync = [meta |-> meta, items |-> [id \in Range(keys) |-> InitItem(id)], keys |-> keys,
               v1 |-> v1, arcSpacesRootId |-> NoNode]
  /\ \E loc \in InitLocals, rootId \in {NoNode, 3}, b \in InitStores :
       dev = [d \in Devices |->
                [e |-> EngineNew,
                 l |-> IF d = "A" THEN [ws_local |-> loc, arcSpacesRootId |-> rootId] ELSE LocalEmpty,
                 b |-> IF d = "A" THEN b ELSE BkEmpty]]
  /\ clock = 1
  /\ hist = HistEmpty

NextBoot == DoInit("A")

SpecBoot == InitAny /\ [][NextBoot]_vars

\* C5: whenever init() returns without error and without pausing, getAll()
\* contains at least one workspace, whatever the partitions and the folder
\* store held
C5_InitLeavesAWorkspace ==
  Ready("A") => Len(getAll(dev["A"].e)) >= 1

\* C9: once init() has ended paused, calling init() again does not complete
\* the initialization
C9_PausedInitStaysPaused ==
  Paused("A") => init(World("A")).e.phase # "ready"

\* the item keys of the replicated partition the order item does not name
Orphans == FilterSeq(sync.keys, Range(sync.keys) \ Range(sync.meta.order))

\* C10: a load that finds items the order item does not name loads them,
\* appends them to the in-memory order and rewrites the order item with
\* them; with no order item at all the rebuilt order holds every discovered
\* key, the default id first.  The recovery is done when init() returns,
\* deletes no item, and does not raise the prompt: init() pauses exactly
\* when it detects a reinstall
C10_OrphanItemsRecovered ==
  [][(dev'["A"].e.phase # "failed" /\ Orphans # <<>>) =>
       /\ DOMAIN sync.items \subseteq DOMAIN sync'.items
       /\ Range(Orphans) \subseteq DOMAIN dev'["A"].e.items
       /\ (sync.meta.version = 2 =>
             /\ FilterSeq(sync'.meta.order, DOMAIN sync.items)
                  = FilterSeq(sync.meta.order, DOMAIN sync.items) \o Orphans
             /\ dev'["A"].e.order = sync'.meta.order
             /\ dev'["A"].e.needsReinstallPrompt
                  = (dev["A"].l.ws_local.activeWorkspaceId = NoId
                       /\ DOMAIN dev["A"].l.ws_local.rootFolderIds = {}))
       /\ (sync.meta.version # 2 /\ ~sync.v1.present =>
             /\ sync'.meta.order
                  = IF DefaultId \in Range(sync.keys)
                    THEN <<DefaultId>> \o FilterSeq(sync.keys, Range(sync.keys) \ {DefaultId})
                    ELSE sync.keys
             /\ dev'["A"].e.order = sync'.meta.order
             /\ ~dev'["A"].e.needsReinstallPrompt)
    ]_vars

\* an init has loaded an item the order item did not name: the replicated
\* order now ends with ids the order item did not hold before
C10_OrphanLoaded ==
  /\ dev["A"].e.phase \in {"ready", "paused"}
  /\ \E m \in hist.merges :
       /\ m.before # <<>>
       /\ Range(m.mem) \ Range(m.before) # {}
       /\ Range(m.mem) \ Range(m.before) \subseteq DOMAIN dev["A"].e.items
       /\ Range(m.mem) \ Range(m.before) \subseteq Range(sync.meta.order)

----------------------------------------------------------------------------
(* Editing workspaces on one device: every handler that writes a           *)
(* workspace item                                                           *)

\* the user adds a page to the folder of the active workspace
DoAddBookmark(d) ==
  /\ Ready(d)
  /\ getActive(dev[d].e) # NoId
  /\ HasRoot(dev[d].e.items[getActive(dev[d].e)])
  /\ LET w == World(d)
     IN Commit(d, bookmarkCreate(w, w.e.items[getActive(w.e)].rootFolderId, <<"Page">>, "u1"))

DoRename(d) == Ready(d) /\ \E id \in Ids : Commit(d, rename(World(d), id, <<"Home">>))

DoChangeColor(d) == Ready(d) /\ \E id \in Ids : Commit(d, changeColor(World(d), id, "red"))

DoSetEmoji(d) ==
  Ready(d) /\ \E id \in Ids, emoji \in {NoEmoji, <<"E1">>} : Commit(d, setEmoji(World(d), id, emoji))

\* the nodes the user can pin: the pages of the store
Pages(b) == {n \in DOMAIN b.nodes : b.nodes[n].url # NoUrl}

DoPinBookmark(d) ==
  Ready(d) /\ \E n \in Pages(dev[d].b) : Commit(d, pinBookmark(World(d), n))

DoUnpinBookmark(d) ==
  Ready(d) /\ \E n \in Pages(dev[d].b) : Commit(d, unpinBookmark(World(d), n))

DoAddShortcut(d) == Ready(d) /\ Commit(d, addShortcut(World(d), "u2", <<"Site">>))

DoRemoveShortcut(d) == Ready(d) /\ Commit(d, removeShortcut(World(d), "u2"))

\* a replicated partition holding one workspace, as another install left it
SyncOne ==
  [SyncEmpty EXCEPT !.meta = [order |-> <<0>>, version |-> 2],
                    !.items = (0 :> InitItem(0)),
                    !.keys = <<0>>]

\* a replicated partition holding the legacy value only
SyncV1 == [SyncEmpty EXCEPT !.v1 = V1Sample]

InitItems ==
  /\ app = AppNew
  /\ sync \in {SyncEmpty, SyncOne, SyncV1}
  /\ \E b \in {BkEmpty, BkLeftover} :
       dev = [d \in Devices |->
                [e |-> EngineNew, l |-> LocalEmpty, b |-> IF d = "A" THEN b ELSE BkEmpty]]
  /\ clock = 1
  /\ hist = HistEmpty

NextItems ==
  \/ DoInit("A") \/ DoContinueInit("A") \/ DoResetAndSetup("A") \/ DoCreate("A")
  \/ DoAddBookmark("A")
  \/ DoRename("A") \/ DoChangeColor("A") \/ DoSetEmoji("A")
  \/ DoPinBookmark("A") \/ DoUnpinBookmark("A")
  \/ DoAddShortcut("A") \/ DoRemoveShortcut("A")

SpecItems == InitItems /\ [][NextItems]_vars

\* C8: no workspace item written to the replicated partition holds the
\* rootFolderId or pinnedBookmarkIds field
C8_NoLocalFieldsReplicated ==
  /\ ~hist.localFieldWritten
  /\ \A id \in DOMAIN sync.items : DOMAIN sync.items[id] \cap LocalFields = {}

\* the item of a workspace has been written while its in-memory record held
\* a folder id and the ids of its pinned pages
C8_ItemWrittenFromLocalRecord ==
  \E id \in DOMAIN sync.items \cap DOMAIN dev["A"].e.items :
    /\ LocalFields \subseteq DOMAIN dev["A"].e.items[id]
    /\ dev["A"].e.items[id].pinnedBookmarkIds # <<>>
    /\ sync.items[id].pinnedBookmarks = dev["A"].e.items[id].pinnedBookmarks

----------------------------------------------------------------------------
(* A first run during which another device's writes arrive *)

DoInitRacing(d) ==
  /\ dev[d].e.phase = "new"
  /\ \E k \in RacePoints : Commit(d, initR(World(d), k))

\* a device that has never run, on an empty replicated partition; its folder
\* store may hold what an earlier install left
InitRace ==
  /\ app = AppNew
  /\ sync = SyncEmpty
  /\ \E rootId \in {NoNode, 3}, b \in InitStores :
       dev = [d \in Devices |->
                [e |-> EngineNew,
                 l |-> IF d = "A" THEN [ws_local |-> EmptyLocal, arcSpacesRootId |-> rootId]
                       ELSE LocalEmpty,
                 b |-> IF d = "A" THEN b ELSE BkEmpty]]
  /\ clock = 1
  /\ hist = HistEmpty

NextRace ==
  \/ DoInitRacing("A") \/ DoInit("A") \/ DoContinueInit("A")
  \/ DoCreate("A") \/ DoDelete("A") \/ DoReorder("A") \/ DoSwitchTo("A")

SpecRace == InitRace /\ [][NextRace]_vars

\* the writes of the other device have reached the replicated partition
OtherArrived == Range(OtherDeviceOrder) \subseteq DOMAIN sync.items

\* C11: when the writes of another device arrive while this device's first
\* run is in progress, the replicated order holds every id the other device
\* wrote when this device's init() completes
C11_FirstRunKeepsOtherDevice ==
  [][(dev["A"].e.phase = "new" /\ dev'["A"].e.phase = "ready" /\ OtherArrived')
       => Range(OtherDeviceOrder) \subseteq Range(sync'.meta.order)]_vars

----------------------------------------------------------------------------
(* Resuming after the reinstall prompt: the device starts on arbitrary     *)
(* contents, pauses, and the user chooses "Restore" or "Start Fresh"       *)

\* the folders of three workspaces under the root container
BkThree == BkCreate(BkLeftover, 3, <<"Trips">>, NoUrl)

InitResume ==
  /\ app = AppNew
  /\ \E meta \in InitMetas, keys \in InitOrders :
       sync = [meta |-> meta, items |-> [id \in Range(keys) |-> InitItem(id)], keys |-> keys,
               v1 |-> NoV1, arcSpacesRootId |-> NoNode]
  /\ \E loc \in InitLocals, rootId \in {NoNode, 3}, b \in InitStores \cup {BkThree} :
       dev = [d \in Devices |->
                [e |-> EngineNew,
                 l |-> IF d = "A" THEN [ws_local |-> loc, arcSpacesRootId |-> rootId] ELSE LocalEmpty,
                 b |-> IF d = "A" THEN b ELSE BkEmpty]]
  /\ clock = 1
  /\ hist = HistEmpty

NextResume == DoInit("A") \/ DoContinueInit("A") \/ DoResetAndSetup("A")

SpecResume == InitResume /\ [][NextResume]_vars

\* the ids of the records of engine e whose root folder is f
ClaimantsOf(e, f) ==
  {id \in Range(getAll(e)) : HasRoot(e.items[id]) /\ e.items[id].rootFolderId = f}

\* continueInit() from the world `pre` has led to the world w: every record
\* loaded before the pause is still a workspace, every folder of the root
\* container is the root of exactly one workspace, and every record that
\* is new was appended to the order, has a replicated item and is in the
\* replicated order
AdoptedAll(pre, w) ==
  LET old == DOMAIN pre.e.items
      new == DOMAIN w.e.items \ old
      rootId == IF w.e.arcSpacesRootId # NoNode THEN w.e.arcSpacesRootId
                ELSE findBestArcSpacesRoot(w)
      folders == IF rootId = NoNode THEN <<>> ELSE BkFolderChildren(w.b, rootId)
  IN /\ old \subseteq Range(getAll(w.e))
     /\ \A f \in Range(folders) : Cardinality(ClaimantsOf(w.e, f)) = 1
     /\ \A id \in new :
          /\ id \in DOMAIN w.s.items
          /\ id \in Range(w.s.meta.order)
          /\ HasRoot(w.e.items[id])
          /\ w.e.items[id].rootFolderId \in Range(folders) \cap DOMAIN pre.b.nodes
     /\ Len(w.e.order) >= Cardinality(new)
     /\ Range(SubSeq(w.e.order, Len(w.e.order) - Cardinality(new) + 1, Len(w.e.order))) = new
     /\ Len(getAll(w.e)) = Cardinality(old) + Cardinality(new)

\* C12: continueInit() after a pause keeps one workspace per synced record
\* and adopts every folder of the root container that no reconciled
\* workspace claims as the root of exactly one new record, which is written
\* to the replicated partition and appended to the order
C12_ResumeAdoptsUnclaimedFolders ==
  Paused("A") =>
    With(continueInit(World("A")), LAMBDA w : ~w.err => AdoptedAll(World("A"), w))

\* continueInit() has adopted a folder: a record whose id the clock gave
\* after the pause has that folder as its root
C12_FolderAdopted ==
  /\ Ready("A")
  /\ \E id \in DOMAIN dev["A"].e.items :
       /\ id > 1
       /\ HasRoot(dev["A"].e.items[id])
       /\ dev["A"].e.items[id].name = <<"Stuff">>
       /\ id \in DOMAIN sync.items

\* resetAndSetup() from the world `pre` has led to the world w: the only
\* workspace is the fresh default one, no workspace known before the reset
\* has its item left in the replicated partition, and the prompt is off
FreshStart(pre, w) ==
  /\ getAll(w.e) = <<DefaultId>>
  /\ DOMAIN w.e.items = {DefaultId}
  /\ w.e.items[DefaultId].name = PERSONAL
  /\ \A id \in DOMAIN pre.e.items \ {DefaultId} : ~(id \in DOMAIN w.s.items)
  /\ DefaultId \in DOMAIN w.s.items => w.s.items[DefaultId] = syncableItem(DefaultWorkspace)
  /\ ~w.e.needsReinstallPrompt

\* C13: resetAndSetup() from the paused state leaves exactly one workspace,
\* the fresh default 'Personal', leaves no replicated item of a workspace
\* known before the reset (orphans discovered while loading included), and
\* leaves needsReinstallPrompt false
C13_ResetLeavesFreshDefault ==
  Paused("A") =>
    With(resetAndSetup(World("A")), LAMBDA w : ~w.err => FreshStart(World("A"), w))

\* init() from the world `pre` has led to the world w without a write:
\* the partitions and the folder store are as before, and so are the
\* workspaces and the folder of each
NothingChanged(pre, w) ==
  /\ ~w.err
  /\ w.writes = 0
  /\ w.s = pre.s /\ w.l = pre.l /\ w.b = pre.b
  /\ w.e.order = pre.e.order
  /\ DOMAIN w.e.items = DOMAIN pre.e.items
  /\ \A id \in DOMAIN w.e.items :
       /\ syncableItem(w.e.items[id]) = syncableItem(pre.e.items[id])
       /\ HasRoot(w.e.items[id]) = HasRoot(pre.e.items[id])
       /\ HasRoot(w.e.items[id]) => w.e.items[id].rootFolderId = pre.e.items[id].rootFolderId
  /\ w.e.localState.rootFolderIds = pre.e.localState.rootFolderIds

\* C14: once init() (or init() followed by continueInit()) has completed,
\* a second init() with no change in between writes nothing to the
\* replicated partition, the local partition or the folder store, creates
\* no folder, and leaves the workspaces and their folders unchanged
C14_SecondInitChangesNothing ==
  Ready("A") => With(init(World("A")), LAMBDA w : NothingChanged(World("A"), w))

----------------------------------------------------------------------------
(* The folder reconciler, seen from outside: the world it is entered in    *)
(* and the world it leaves                                                 *)

\* the world in which _completeInit calls the reconciler when init() of
\* device d loads the replicated order
ReconcileEntry(d) ==
  loadLocalState(loadV2([World(d) EXCEPT !.e.needsReinstallPrompt = FALSE,
                                         !.e.reinstallMeta = NoMeta],
                        getWorkspaceMeta(World(d))))

\* the workspace has a folder id that resolves
Resolved(p, id) == HasRoot(p.e.items[id]) /\ BkExists(p.b, p.e.items[id].rootFolderId)

\* the workspaces the reconciler has to find a folder for, in order
Unresolved(p) == FilterSeq(getAll(p.e), {id \in DOMAIN p.e.items : ~Resolved(p, id)})

\* folder f of the store of p carries the name of workspace ws
Fits(p, ws, f) ==
  \/ p.b.nodes[f].title = buildFolderTitle(ws.name, ws.emoji)
  \/ extractEmojiPrefix(p.b.nodes[f].title).name = ws.name

\* the folders the root container held when the reconciler was entered
EntryFolders(p, q) == BkFolderChildren(p.b, q.e.arcSpacesRootId)

\* the workspaces other than id whose folder in q is f
OtherClaimants(q, id, f) == ClaimantsOf(q.e, f) \ {id}

\* the unresolved workspaces that pass 1 left without a folder of their name
Unmatched(p, q) ==
  FilterSeq(Unresolved(p),
    {id \in DOMAIN q.e.items :
       /\ HasRoot(q.e.items[id])
       /\ ~(/\ q.e.items[id].rootFolderId \in Range(EntryFolders(p, q))
            /\ Fits(p, p.e.items[id], q.e.items[id].rootFolderId))})

\* the position of x in the sequence s (0 when absent)
IndexOf(s, x) == IF x \in Range(s) THEN CHOOSE i \in 1..Len(s) : s[i] = x ELSE 0

\* pass 1: a workspace that entered resolved keeps its folder; an unresolved
\* one gets a folder, which no other workspace has; it gets a folder of its
\* name whenever one of its name is left to no other workspace
Pass1Done(p, q) ==
  /\ \A id \in Range(getAll(p.e)) :
       Resolved(p, id) => q.e.items[id].rootFolderId = p.e.items[id].rootFolderId
  /\ \A id \in Range(Unresolved(p)) :
       /\ Resolved(q, id)
       /\ OtherClaimants(q, id, q.e.items[id].rootFolderId) = {}
       /\ (\E f \in Range(EntryFolders(p, q)) :
             Fits(p, p.e.items[id], f) /\ OtherClaimants(q, id, f) = {})
            => Fits(p, p.e.items[id], q.e.items[id].rootFolderId)

\* pass 2: the workspaces still unmatched are paired in order with the
\* folders still unclaimed in folder order, and a paired folder carries the
\* workspace's title
Pass2Done(p, q) ==
  LET um == Unmatched(p, q)
      fs == EntryFolders(p, q)
  IN \A i \in 1..Len(um) :
       LET f == q.e.items[um[i]].rootFolderId
       IN /\ q.b.nodes[f].title = buildFolderTitle(p.e.items[um[i]].name, p.e.items[um[i]].emoji)
          /\ \A j \in 1..Len(um) :
               LET g == q.e.items[um[j]].rootFolderId
               IN (i < j /\ g \in Range(fs)) => (f \in Range(fs) /\ IndexOf(fs, f) < IndexOf(fs, g))

\* the reconciler entered by device d leaves its two passes done
Reconciled(d) ==
  With(ReconcileEntry(d),
       LAMBDA p : With(reconcileFolders(p),
                       LAMBDA q : ~q.err => (Pass1Done(p, q) /\ Pass2Done(p, q))))

\* C15: pass 1 gives each unresolved workspace, in order, an unclaimed
\* folder of its name (its expected title or its name behind an emoji
\* prefix); pass 2 pairs the workspaces still unmatched, in order, with the
\* folders still unclaimed, in folder order, and renames each paired folder
\* to the workspace's title
C15_ReconcilerMatchesByNameThenPosition ==
  \A d \in Devices : sync.meta.version = 2 => Reconciled(d)

\* the unresolved workspaces for which the reconciler created a folder
GotNewFolder(p, q) ==
  {id \in Range(Unresolved(p)) :
     HasRoot(q.e.items[id]) /\ ~(q.e.items[id].rootFolderId \in DOMAIN p.b.nodes)}

\* C16: the reconciler creates a folder for an unresolved workspace only
\* when every folder of the root container is claimed
C16_NewFolderOnlyWhenNoneUnclaimed ==
  \A d \in Devices :
    sync.meta.version = 2 =>
      With(ReconcileEntry(d),
           LAMBDA p : With(reconcileFolders(p),
                           LAMBDA q : (~q.err /\ GotNewFolder(p, q) # {}) =>
                                        \A f \in Range(EntryFolders(p, q)) :
                                          ClaimantsOf(q.e, f) # {}))

\* the reconciler creates a folder although the root container holds
\* folders: all of them are taken
C16_FolderCreatedBesideClaimed ==
  /\ sync.meta.version = 2
  /\ With(ReconcileEntry("A"),
          LAMBDA p : With(reconcileFolders(p),
                          LAMBDA q : /\ ~q.err
                                     /\ GotNewFolder(p, q) # {}
                                     /\ EntryFolders(p, q) # <<>>))

\* every workspace getAll() returns in the world w has a folder id, which
\* the local folder map records, in memory and in the local partition, and
\* which resolves in the folder store
AllRooted(w) ==
  \A id \in Range(getAll(w.e)) :
    /\ HasRoot(w.e.items[id])
    /\ id \in DOMAIN w.e.localState.rootFolderIds
    /\ w.e.localState.rootFolderIds[id] = w.e.items[id].rootFolderId
    /\ id \in DOMAIN w.l.ws_local.rootFolderIds
    /\ w.l.ws_local.rootFolderIds[id] = w.e.items[id].rootFolderId
    /\ BkExists(w.b, w.e.items[id].rootFolderId)

\* C17: when init() returns without error and without pausing, and when
\* continueInit() returns, every workspace of getAll() has a rootFolderId
\* that the local folder map records and that resolves to an existing
\* folder
C17_WorkspacesHaveFolders ==
  \A d \in Devices :
    /\ With(init(World(d)), LAMBDA w : w.e.phase = "ready" => AllRooted(w))
    /\ Paused(d) => With(continueInit(World(d)), LAMBDA w : w.e.phase = "ready" => AllRooted(w))

\* init() has completed with two workspaces, one of which the reconciler
\* gave a folder
C17_TwoWorkspacesRooted ==
  /\ Ready("A")
  /\ Len(getAll(dev["A"].e)) = 2
  /\ AllRooted(World("A"))
  /\ \E id \in Range(getAll(dev["A"].e)) : dev["A"].e.items[id].rootFolderId >= 6

----------------------------------------------------------------------------
(* Pin reconciliation: one workspace whose replicated pinned entries were  *)
(* written on another device, over folder stores with pages and folders    *)

\* the workspace folder with a page, a folder, and in it a page of the same url
BkPages ==
  BkCreate(BkCreate(BkCreate(BkPersonal, 4, <<"Page">>, "u1"), 4, <<"Docs">>, NoUrl),
           6, <<"Copy">>, "u1")

\* the workspace folder with a page and a folder without title
BkUntitled == BkCreate(BkCreate(BkPersonal, 4, <<"Page">>, "u1"), 4, <<>>, NoUrl)

\* the pinned entries the replicated item may hold: id 5 may resolve, id 9
\* never does
PinEntries ==
  {[id |-> n, url |-> u, title |-> t] :
     n \in {5, 9}, u \in {NoUrl, "u1", "u9"}, t \in {<<>>, <<"Docs">>}}

MaxPins == 2

PinLists == UNION {[1..k -> PinEntries] : k \in 0..MaxPins}

InitPins ==
  /\ app = AppNew
  /\ \E pins \in PinLists :
       sync = [SyncEmpty EXCEPT !.meta = [order |-> <<0>>, version |-> 2],
                                !.items = (0 :> [InitItem(0) EXCEPT !.pinnedBookmarks = pins]),
                                !.keys = <<0>>]
  /\ \E b \in {BkPersonal, BkPages, BkUntitled} :
       dev = [d \in Devices |->
                [e |-> EngineNew,
                 l |-> IF d = "A"
                       THEN [ws_local |-> [activeWorkspaceId |-> 0, rootFolderIds |-> (0 :> 4)],
                             arcSpacesRootId |-> 3]
                       ELSE LocalEmpty,
                 b |-> IF d = "A" THEN b ELSE BkEmpty]]
  /\ clock = 1
  /\ hist = HistEmpty

NextPins == DoInit("A")

SpecPins == InitPins /\ [][NextPins]_vars

\* the world in which _completeInit calls the pin reconciliation
PinsEntry(d) == reconcileFolders(ReconcileEntry(d))

\* the links of the subtree of `root` with the url, and its folders with
\* the title
SubtreeLinks(b, root, url) ==
  {n \in Range(WalkTree(b, root)) : b.nodes[n].url # NoUrl /\ b.nodes[n].url = url}

SubtreeFolders(b, root, title) ==
  {n \in Range(WalkTree(b, root)) \ {root} : b.nodes[n].url = NoUrl /\ b.nodes[n].title = title}

\* the nodes an entry whose id does not resolve may be rewritten to; an
\* entry without url and without title finds a folder only if untitledToo
Rewrites(b, root, m, untitledToo) ==
  IF m.url # NoUrl THEN SubtreeLinks(b, root, m.url)
  ELSE IF untitledToo \/ m.title # <<>> THEN SubtreeFolders(b, root, m.title)
  ELSE {}

RECURSIVE PinsFollow(_, _, _, _, _)
\* the entries `news` are what the entries `olds` become: an entry whose id
\* resolves is kept, one whose id does not is rewritten with the id of a
\* node of Rewrites, and removed when there is none
PinsFollow(b, root, olds, news, untitledToo) ==
  IF olds = <<>> THEN news = <<>>
  ELSE LET m == Head(olds)
       IN IF BkExists(b, m.id)
          THEN news # <<>> /\ Head(news).id = m.id
               /\ PinsFollow(b, root, Tail(olds), Tail(news), untitledToo)
          ELSE IF Rewrites(b, root, m, untitledToo) # {}
          THEN news # <<>> /\ Head(news).id \in Rewrites(b, root, m, untitledToo)
               /\ PinsFollow(b, root, Tail(olds), Tail(news), untitledToo)
          ELSE PinsFollow(b, root, Tail(olds), news, untitledToo)

\* pin reconciliation entered by device d leaves, for every workspace with
\* a folder, the entries PinsFollow describes
PinsReconciled(d, untitledToo) ==
  With(PinsEntry(d),
       LAMBDA p : With(reconcilePinnedBookmarks(p),
                       LAMBDA q : \A id \in Range(getAll(p.e)) :
                                    Resolved(p, id) =>
                                      PinsFollow(p.b, p.e.items[id].rootFolderId,
                                                 p.e.items[id].pinnedBookmarks,
                                                 q.e.items[id].pinnedBookmarks, untitledToo)))

\* C18 as stated: an entry whose id no longer resolves is rewritten with the
\* id of the subtree link of its url if it has a url and there is one, with
\* the id of the subtree folder of its title if it has no url and there is
\* one, and removed otherwise; an entry whose id resolves is kept
C18_PinsRewrittenOrRemoved ==
  sync.meta.version = 2 => PinsReconciled("A", TRUE)

\* C18, amended: as stated, but an entry without url is rewritten only if
\* its title is not empty
C18_PinsRewrittenOrRemovedTitled ==
  sync.meta.version = 2 => PinsReconciled("A", FALSE)

\* init() has rewritten a pinned entry: the replicated item holds an entry
\* with the id of the page nested in the folder, which no initial entry has
C18_EntryRewritten ==
  /\ Ready("A")
  /\ 0 \in DOMAIN sync.items
  /\ \E i \in 1..Len(sync.items[0].pinnedBookmarks) : sync.items[0].pinnedBookmarks[i].id = 7

----------------------------------------------------------------------------
(* Migration of the legacy single item *)

\* a legacy value written on another device: the folder id of its second
\* workspace is not one of this device
V1Elsewhere ==
  [V1Sample EXCEPT !.items = (0 :> WithRoot(InitItem(0), 4) @@ 1 :> WithRoot(InitItem(1), 6))]

\* a legacy value with one workspace and no active workspace
V1Single ==
  [present |-> TRUE, activeWorkspaceId |-> NoId, order |-> <<1>>,
   items |-> (1 :> WithRoot(InitItem(1), 5))]

\* a device that starts on a replicated partition holding a legacy value only
InitLegacy ==
  /\ app = AppNew
  /\ \E v1 \in {V1Sample, V1Elsewhere, V1Single} : sync = [SyncEmpty EXCEPT !.v1 = v1]
  /\ \E loc \in InitLocals, rootId \in {NoNode, 3}, b \in InitStores \cup {BkThree} :
       dev = [d \in Devices |->
                [e |-> EngineNew,
                 l |-> IF d = "A" THEN [ws_local |-> loc, arcSpacesRootId |-> rootId] ELSE LocalEmpty,
                 b |-> IF d = "A" THEN b ELSE BkEmpty]]
  /\ clock = 1
  /\ hist = HistEmpty

NextLegacy == DoInit("A")

SpecLegacy == InitLegacy /\ [][NextLegacy]_vars

\* the replicated partition holds the legacy value and nothing else
LegacyOnly == sync.v1.present /\ sync.meta = NoMeta /\ sync.keys = <<>>

\* the folder id the legacy value holds for each of its workspaces
LegacyFolders == [id \in DOMAIN sync.v1.items |-> sync.v1.items[id].rootFolderId]

\* every folder id of the legacy value resolves in the folder store of d
LegacyFoldersResolve(d) ==
  \A id \in DOMAIN sync.v1.items : BkExists(dev[d].b, sync.v1.items[id].rootFolderId)

\* the world w holds the legacy value in the split layout: one item per
\* legacy workspace, none with a rootFolderId, the order item with the
\* legacy order and version 2, no legacy value, and a local folder id for
\* every workspace
MigratedSplit(w) ==
  /\ DOMAIN w.s.items = DOMAIN sync.v1.items
  /\ Len(w.s.keys) = Cardinality(DOMAIN sync.v1.items)
  /\ \A id \in DOMAIN w.s.items : ~HasRoot(w.s.items[id])
  /\ w.s.meta = [order |-> sync.v1.order, version |-> 2]
  /\ ~w.s.v1.present
  /\ DOMAIN w.l.ws_local.rootFolderIds = DOMAIN sync.v1.items

\* C19 as stated: from a replicated partition that holds only the legacy
\* item with N workspaces, init() leaves N items without rootFolderId, the
\* order item with the legacy order and version 2, no legacy item, and a
\* local device state that maps each id to its legacy folder id
C19_MigrationKeepsLegacyFolders ==
  LegacyOnly =>
    With(init(World("A")),
         LAMBDA w : w.e.phase = "ready" =>
                      (MigratedSplit(w) /\ w.l.ws_local.rootFolderIds = LegacyFolders))

\* C19, amended: as stated, with the local device state mapping each id to
\* its legacy folder id when the legacy folder ids resolve in this device's
\* folder store, and to a folder of this device otherwise
C19_MigrationSplitsLegacyItem ==
  LegacyOnly =>
    With(init(World("A")),
         LAMBDA w : w.e.phase = "ready" =>
                      /\ MigratedSplit(w)
                      /\ LegacyFoldersResolve("A") => w.l.ws_local.rootFolderIds = LegacyFolders
                      /\ \A id \in DOMAIN sync.v1.items :
                           BkExists(w.b, w.l.ws_local.rootFolderIds[id]))

\* init() migrates a legacy value whose folder ids resolve on this device
C19_LegacyMigrated ==
  /\ LegacyOnly
  /\ LegacyFoldersResolve("A")
  /\ With(init(World("A")),
          LAMBDA w : w.e.phase = "ready" /\ MigratedSplit(w) /\ w.writes > 0)

----------------------------------------------------------------------------
(* The order merge as a function: the in-memory order of device A is the   *)
(* primary order, the replicated order the secondary one                   *)

\* the sequences over the ids without repetition
DupFreeOrders == UNION {Perms(S) : S \in SUBSET Ids}

InitMerge ==
  /\ app = AppNew
  /\ \E B \in DupFreeOrders : sync = [SyncEmpty EXCEPT !.meta = [order |-> B, version |-> 2]]
  /\ \E A \in DupFreeOrders :
       dev = [d \in Devices |->
                [e |-> IF d = "A" THEN [EngineNew EXCEPT !.order = A, !.phase = "ready"]
                       ELSE EngineNew,
                 l |-> LocalEmpty, b |-> BkEmpty]]
  /\ clock = 0
  /\ hist = HistEmpty

\* _saveMeta(): this._order = _mergeOrders(this._order, remote.order),
\* written back as the order item
DoSaveMeta(d) == Ready(d) /\ Commit(d, saveMeta(World(d), FALSE))

NextMerge == DoSaveMeta("A")

SpecMerge == InitMerge /\ [][NextMerge]_vars

\* no element occurs twice in q
DupFree(q) == \A i, j \in 1..Len(q) : q[i] = q[j] => i = j

\* C20: for orders A and B without repetition, merge(A, B) holds exactly the
\* ids of A and B, starts with A, continues with the ids of B that A lacks
\* in B's order, and merge(merge(A, B), B) = merge(A, B)
C20_MergeAppendsAndIsIdempotent ==
  LET A == dev["A"].e.order
      B == sync.meta.order
      M == mergeOrders(A, B)
  IN (DupFree(A) /\ DupFree(B)) =>
       /\ Range(M) = Range(A) \cup Range(B)
       /\ SubSeq(M, 1, Len(A)) = A
       /\ SubSeq(M, Len(A) + 1, Len(M)) = FilterSeq(B, Range(B) \ Range(A))
       /\ mergeOrders(M, B) = M

\* a merge has been applied in which each order had an id the other lacked
C20_BothContributed ==
  \E m \in hist.merges :
    /\ Range(m.before) \ Range(m.mem) # {}
    /\ Range(m.mem) \ Range(m.before) # {}
    /\ Len(m.after) = Cardinality(Range(m.mem) \cup Range(m.before))

----------------------------------------------------------------------------
(* Shortcuts: one device whose active workspace gains and loses shortcuts, *)
(* starting on a replicated item that holds a list already, or on a folder *)
(* store whose reserved sub-folder holds links                             *)

\* the urls a caller passes to addShortcut() and removeShortcut()
Urls == {"u1", "u2", "u9"}

\* a list of MAX_SHORTCUTS shortcuts, as eight addShortcut() calls leave it
Full8 ==
  [i \in 1..MAX_SHORTCUTS |->
     [url |-> <<"u1", "u2", "u3", "u4", "u5", "u6", "u7", "u8">>[i], title |-> <<"Site">>]]

\* a replicated partition holding the default workspace with the shortcuts
SyncShortcuts(shortcuts) ==
  [SyncEmpty EXCEPT !.meta = [order |-> <<0>>, version |-> 2],
                    !.items = (0 :> [InitItem(0) EXCEPT !.shortcuts = shortcuts]),
                    !.keys = <<0>>]

\* the folder of the default workspace with a reserved sub-folder in which
\* two links have the same url
BkShortcutsDup ==
  BkCreate(BkCreate(BkCreate(BkPersonal, 4, SHORTCUTS_FOLDER_NAME, NoUrl),
                    5, <<"Site">>, "u1"),
           5, <<"Site">>, "u1")

\* the titles a caller passes to addShortcut(): a page title, and none
Titles == {<<"Site">>, <<>>}

InitShortcuts ==
  /\ app = AppNew
  /\ sync \in {SyncEmpty} \cup {SyncShortcuts(SubSeq(Full8, 1, n)) : n \in 0..MAX_SHORTCUTS}
  /\ \E b \in {BkEmpty, BkRoot, BkPersonal, BkShortcutsDup} :
       dev = [d \in Devices |->
                [e |-> EngineNew, l |-> LocalEmpty, b |-> IF d = "A" THEN b ELSE BkEmpty]]
  /\ clock = 1
  /\ hist = HistEmpty

DoAddShortcutUrl(d) ==
  Ready(d) /\ \E url \in Urls, title \in Titles : Commit(d, addShortcut(World(d), url, title))

DoRemoveShortcutUrl(d) ==
  Ready(d) /\ \E url \in Urls : Commit(d, removeShortcut(World(d), url))

NextShortcuts ==
  \/ DoInit("A") \/ DoContinueInit("A")
  \/ DoAddShortcutUrl("A") \/ DoRemoveShortcutUrl("A")

SpecShortcuts == InitShortcuts /\ [][NextShortcuts]_vars

\* the shortcuts are at most MAX_SHORTCUTS and no two have the same url
ShortcutsWellFormed(shortcuts) ==
  /\ Len(shortcuts) <= MAX_SHORTCUTS
  /\ \A i, j \in 1..Len(shortcuts) : shortcuts[i].url = shortcuts[j].url => i = j

\* C21: every workspace record the engine holds has at most 8 shortcuts and
\* no two shortcuts with the same url, and addShortcut() of a url that is
\* present, or of a ninth url, leaves the list as it is
C21_ShortcutsBoundedAndDistinct ==
  \A d \in Devices :
    /\ \A id \in DOMAIN dev[d].e.items : ShortcutsWellFormed(dev[d].e.items[id].shortcuts)
    /\ Ready(d) =>
         \A url \in Urls :
           With(addShortcut(World(d), url, <<"Site">>),
                LAMBDA w :
                  (\/ Len(getShortcuts(dev[d].e)) >= MAX_SHORTCUTS
                   \/ \E i \in 1..Len(getShortcuts(dev[d].e)) : getShortcuts(dev[d].e)[i].url = url)
                  => getShortcuts(w.e) = getShortcuts(dev[d].e))

----------------------------------------------------------------------------
(* switchTo *)

\* the world switchTo(id) leaves differs from the world pre it started in
\* only by activeWorkspaceId, in memory and in the local device state
SwitchedOnly(pre, w, id) ==
  /\ ~w.err
  /\ w.s = pre.s
  /\ w.b = pre.b
  /\ w.e = [pre.e EXCEPT !.localState.activeWorkspaceId = id]
  /\ w.l = [pre.l EXCEPT !.ws_local.activeWorkspaceId = id]

\* C22: switchTo(id) of a known id changes activeWorkspaceId only, in memory
\* and in the local device state, and writes nothing to the replicated
\* partition; switchTo(id) of an unknown id changes nothing
C22_SwitchToIsLocalOnly ==
  \A d \in Devices :
    Ready(d) =>
      \A id \in Ids :
        With(switchTo(World(d), id),
             LAMBDA w : IF id \in DOMAIN dev[d].e.items
                        THEN SwitchedOnly(World(d), w, id)
                        ELSE w = World(d))

\* device A, on which nothing was ever deleted, has left the default
\* workspace for workspace 1 by switchTo(1)
C22_SwitchedAway ==
  /\ Ready("A")
  /\ hist.deleted = {}
  /\ hist.merges = {}
  /\ {0, 1} \subseteq DOMAIN dev["A"].e.items
  /\ dev["A"].e.localState.activeWorkspaceId = 1
  /\ dev["A"].l.ws_local.activeWorkspaceId = 1

----------------------------------------------------------------------------
(* init() on a replicated store that rejects writes: device A initializes  *)
(* and re-initializes while the store rejects some of the writes init()    *)
(* hands to it, and while the writes of another device arrive one by one   *)

\* the highest ordinal number of a write of one init() call that the store
\* may reject
MaxFault == 4

\* which writes of one init() call the store rejects
FaultPlans == SUBSET (1..MaxFault)

\* the world a handler of device d starts in when the store rejects the
\* replicated writes whose ordinal numbers are in F
WorldFaulty(d, F) == [World(d) EXCEPT !.fault = F]

DoInitFaulty(d) ==
  d \in Devices /\ \E F \in FaultPlans : Commit(d, init(WorldFaulty(d, F)))

\* the first write of another device's create(): its workspace item arrives,
\* the order item does not name it yet
DoOtherDeviceItem ==
  /\ sync.meta.version = 2
  /\ ~(1 \in DOMAIN sync.items)
  /\ sync' = [sync EXCEPT !.items = PutKey(@, 1, OtherDeviceItem(1)),
                          !.keys = Append(@, 1)]
  /\ UNCHANGED <<dev, clock, hist, app>>

InitFaults ==
  /\ app = AppNew
  /\ sync = SyncEmpty
  /\ \E b \in {BkEmpty, BkLeftover} :
       dev = [d \in Devices |->
                [e |-> EngineNew, l |-> LocalEmpty, b |-> IF d = "A" THEN b ELSE BkEmpty]]
  /\ clock = 1
  /\ hist = HistEmpty

NextFaults ==
  \/ DoInitFaulty("A") \/ DoContinueInit("A")
  \/ DoCreate("A") \/ DoDelete("A")
  \/ DoOtherDeviceItem

SpecFaults == InitFaults /\ [][NextFaults]_vars

\* what init() did in the world w it leaves: it started attempts 1..n for an
\* n of 1..3, waited 500 ms times the attempt number after each attempt but
\* the last, and throws only after attempt 3, that attempt's exception
RetriedAtMostThrice(w) ==
  /\ Len(w.attempts) \in 1..3
  /\ \A i \in 1..Len(w.attempts) : w.attempts[i] = i
  /\ Len(w.delays) = Len(w.attempts) - 1
  /\ \A i \in 1..Len(w.delays) : w.delays[i] = 500 * i
  /\ w.err => (Len(w.attempts) = 3 /\ w.errAt = 3)
  /\ ~w.err => w.errAt = 0

\* C23: init() makes at most 3 attempts, returns as soon as one completes,
\* waits a delay that grows linearly with the attempt number between failed
\* attempts, and throws the third attempt's exception when that one fails too
C23_InitRetriesAtMostThrice ==
  \A d \in Devices :
    \A F \in FaultPlans : With(init(WorldFaulty(d, F)), RetriedAtMostThrice)

\* init() of device A has thrown after its third attempt, on a store that
\* took the default workspace's item and rejected the order item
C23_ThirdAttemptFailed ==
  /\ dev["A"].e.phase = "failed"
  /\ DefaultId \in DOMAIN sync.items
  /\ sync.meta.version = 0

\* the in-memory state of the engine in the world w is the one e: order,
\* records, active workspace and folder map
SameMemory(e, w) ==
  /\ w.e.order = e.order
  /\ w.e.items = e.items
  /\ w.e.localState = e.localState

\* C24: when init() of a ready engine throws after its retries, the order,
\* the records, the active workspace and the folder map in memory are the
\* ones the engine held before the call
C24_FailedInitKeepsMemory ==
  \A d \in Devices :
    Ready(d) =>
      \A F \in FaultPlans :
        With(init(WorldFaulty(d, F)), LAMBDA w : w.err => SameMemory(dev[d].e, w))

----------------------------------------------------------------------------
(* Failures of the underlying stores seen through the adapter *)

\* settings a caller saves
SomeSettings == [present |-> TRUE, theme |-> "dark"]

\* the replicated writes of the adapter a service of device d makes in world w
\* hand the failure of the underlying store to their caller
WritesPropagate(w) ==
  /\ saveWorkspaceMeta(w, [order |-> w.e.order, version |-> 2]).err
  /\ saveSettings(w, SomeSettings).err
  /\ \A id \in DOMAIN w.e.items :
       saveWorkspaceItem(w, id, syncableItem(w.e.items[id])).err
  /\ \A id \in DOMAIN w.e.items : deleteWorkspaceItem(w, id).err

\* C25: when the underlying store rejects a write of the replicated
\* partition, each of saveWorkspaceMeta, saveWorkspaceItem, saveSettings and
\* deleteWorkspaceItem rejects towards its caller instead of swallowing the
\* failure
C25_ReplicatedWriteFailuresPropagate ==
  \A d \in Devices : Ready(d) => WritesPropagate(WorldFaulty(d, {1}))

\* the world a handler of device d starts in when every read of the two
\* partitions and every write of the local partition is rejected
WorldFailing(d) == [World(d) EXCEPT !.readFault = TRUE, !.localFault = TRUE]

\* the values a handler may write to ws_local
LocalWrites(w) ==
  {[w.e.localState EXCEPT !.activeWorkspaceId = id] : id \in (0..MaxIds) \cup {NoId}}

\* C26: a failing read of either partition gives the empty result without
\* throwing, so that the typed getters return null or their defaults, and a
\* failing write of the local partition is swallowed: the call returns
\* normally and the local partition is as it was
C26_ReadsDegradeLocalWritesSwallowed ==
  \A d \in Devices :
    With(WorldFailing(d), LAMBDA w :
      /\ getSync(w) = [val |-> SyncEmpty, settings |-> NoSettings, err |-> FALSE]
      /\ getLocal(w) = [val |-> LocalEmpty, err |-> FALSE]
      /\ getWorkspaceMeta(w) = NoMeta
      /\ getWorkspaces(w) = NoV1
      /\ getSettings(w) = NoSettings
      /\ getAllWorkspaceItems(w, w.s.meta.order) = EmptyMap
      /\ discoverAllWorkspaceKeys(w) = <<>>
      /\ getWorkspaceLocal(w) = EmptyLocal
      /\ ArcSpacesRootIdLocal(w) = NoNode
      /\ getArcSpacesRootIdLocal(w) = w
      /\ \A data \in LocalWrites(w) :
           /\ ~saveWorkspaceLocal(w, data).err
           /\ saveWorkspaceLocal(w, data).l = w.l
      /\ \A id \in 1..MaxNodes :
           /\ ~saveArcSpacesRootIdLocal(w, id).err
           /\ saveArcSpacesRootIdLocal(w, id).l = w.l)

\* device A is ready, both partitions hold its data, and with the stores
\* failing the order item reads as absent and a write of a different local
\* state changes nothing
C26_StoresHeldData ==
  /\ Ready("A")
  /\ sync.meta.version = 2
  /\ DefaultId \in DOMAIN sync.items
  /\ dev["A"].l.ws_local # EmptyLocal
  /\ With(WorldFailing("A"), LAMBDA w :
       /\ getWorkspaceMeta(World("A")) # NoMeta
       /\ getWorkspaceMeta(w) = NoMeta
       /\ getWorkspaceLocal(w) = EmptyLocal
       /\ saveWorkspaceLocal(w, EmptyLocal).l.ws_local = dev["A"].l.ws_local)

----------------------------------------------------------------------------
(* The App of device "A": re-initialization when the replicated partition *)
(* changes.  workspaceService.init() is taken in two steps: everything up   *)
(* to its last await, and its return; between the two, other devices write  *)
(* and notifications are delivered.                                         *)

\* notifications waiting for the listener, changes other devices make, and
\* calls of workspaceService.init() that have not returned
MaxNotes == 2

MaxChanges == 3

MaxRunning == 2

\* variant of the re-entrancy check that lets every call through
ReentrantNever(a) == FALSE

\* `if (this._syncing) return;`
Reentrant(a) == a.syncing

\* App.init(): workspaceService.init() up to its last await; the listener
\* is not registered yet
DoAppInit ==
  /\ ~app.started
  /\ CommitEngine("A", init(World("A")))
  /\ app' = [app EXCEPT !.started = TRUE, !.running = @ + 1, !.read = app.noted]

\* App.init(): workspaceService.init() has returned, the components are
\* built, _syncing is set to false and the listener is registered
DoAppListen ==
  /\ app.started /\ ~app.listening
  /\ app' = [app EXCEPT !.running = @ - 1, !.syncing = FALSE, !.listening = TRUE]
  /\ UNCHANGED <<sync, dev, clock, hist>>

\* _handleRemoteSync() past the check: the flag is set and
\* workspaceService.init() runs up to its last await, leaving the world w; a
\* change it made to the replicated partition is notified to the listener
BeginRemoteSync(w) ==
  /\ app.running < MaxRunning
  /\ CommitEngine("A", w)
  /\ app' = [app EXCEPT !.notes = IF w.s # sync THEN @ ELSE @ - 1,
                        !.syncing = TRUE, !.running = @ + 1,
                        !.read = app.noted, !.dropped = FALSE]

\* the listener is handed a notification of a change of a workspace key and
\* calls _handleRemoteSync()
DoHandleRemoteSync ==
  /\ app.listening /\ app.notes > 0
  /\ IF Reentrant(app)
     THEN /\ app' = [app EXCEPT !.notes = @ - 1, !.dropped = TRUE]
          /\ UNCHANGED <<sync, dev, clock, hist>>
     ELSE BeginRemoteSync(init(World("A")))

\* _handleRemoteSync(): workspaceService.init() has returned and the finally
\* block clears the flag
DoRemoteSyncReturns ==
  /\ app.listening /\ app.running > 0
  /\ app' = [app EXCEPT !.syncing = FALSE, !.running = @ - 1]
  /\ UNCHANGED <<sync, dev, clock, hist>>

\* the App after a handler of another device: a change of the replicated
\* partition is notified to the registered listener
Notified(a, changed) ==
  IF changed /\ a.listening THEN [a EXCEPT !.notes = @ + 1, !.noted = @ + 1] ELSE a

\* a handler of another device d has left the world w
RemoteCommit(d, w) ==
  /\ (w.s # sync /\ app.listening) => (app.notes < MaxNotes /\ app.noted < MaxChanges)
  /\ CommitEngine(d, w)
  /\ app' = Notified(app, w.s # sync)

DoRemoteInit == ~Ready("B") /\ RemoteCommit("B", init(World("B")))

DoRemoteContinueInit == Paused("B") /\ RemoteCommit("B", continueInit(World("B")))

DoRemoteCreate ==
  Ready("B") /\ \E name \in Names : RemoteCommit("B", create(World("B"), name, "blue"))

DoRemoteDelete == Ready("B") /\ \E id \in Ids : RemoteCommit("B", delete(World("B"), id))

DoRemoteRename ==
  Ready("B") /\ \E id \in Ids : RemoteCommit("B", rename(World("B"), id, <<"Home">>))

\* a handler the user of device "A" started has left the world w: a change
\* it made to the replicated partition is notified to the device's own
\* listener too
OwnCommit(w) ==
  /\ (w.s # sync /\ app.listening) => app.notes < MaxNotes
  /\ CommitEngine("A", w)
  /\ app' = IF w.s # sync /\ app.listening THEN [app EXCEPT !.notes = @ + 1] ELSE app

DoOwnCreate ==
  Ready("A") /\ app.listening /\ \E name \in Names : OwnCommit(create(World("A"), name, "blue"))

DoOwnContinueInit ==
  Paused("A") /\ app.listening /\ OwnCommit(continueInit(World("A")))

InitSync ==
  /\ app = AppNew
  /\ sync = SyncEmpty
  /\ dev = [d \in Devices |-> [e |-> EngineNew, l |-> LocalEmpty, b |-> BkEmpty]]
  /\ clock = 1
  /\ hist = HistEmpty

NextSync ==
  \/ DoAppInit \/ DoAppListen \/ DoHandleRemoteSync \/ DoRemoteSyncReturns
  \/ DoRemoteInit \/ DoRemoteContinueInit
  \/ DoRemoteCreate \/ DoRemoteDelete \/ DoRemoteRename
  \/ DoOwnContinueInit \/ DoOwnCreate

SpecSync == InitSync /\ [][NextSync]_vars

\* C27: at most one init sequence of the engine is in progress on a device at
\* any time; a notification that arrives during a re-initialization starts
\* no second one
C27_OneInitAtATime == app.running <= 1

\* a re-initialization is in progress and a notification that arrived
\* meanwhile was discarded
C27_NotificationDuringSync == app.syncing /\ app.running = 1 /\ app.dropped

\* C28: a notification that arrives during a re-initialization is not lost:
\* once every notification is delivered and no re-initialization is in
\* progress, the engine has read the replicated partition after the last
\* change it was notified of
C28_NoNotificationLost ==
  (app.listening /\ ~app.syncing /\ app.notes = 0) => app.read = app.noted

----------------------------------------------------------------------------
(* Shortcuts and their reserved sub-folder *)

\* a fresh install: no replicated data, and a folder store without a
\* __shortcuts__ sub-folder
InitRoundTrip ==
  /\ app = AppNew
  /\ sync = SyncEmpty
  /\ \E b \in {BkEmpty, BkRoot, BkPersonal} :
       dev = [d \in Devices |->
                [e |-> EngineNew, l |-> LocalEmpty, b |-> IF d = "A" THEN b ELSE BkEmpty]]
  /\ clock = 1
  /\ hist = HistEmpty

NextRoundTrip ==
  \/ DoInit("A") \/ DoCreate("A") \/ DoSwitchTo("A")
  \/ DoAddShortcutUrl("A") \/ DoRemoveShortcutUrl("A")

SpecRoundTrip == InitRoundTrip /\ [][NextRoundTrip]_vars

\* the {url, title} pairs _loadShortcutsFromBookmarks reads back from the
\* sub-folder of the workspace's root folder are those of the workspace's
\* shortcuts, and the sub-folder exists exactly when there is a shortcut
Mirrored(d, ws) ==
  /\ Range(loadShortcutsFromBookmarks(World(d), ws.rootFolderId)) = Range(ws.shortcuts)
  /\ (ShortcutsFolder(dev[d].b, ws.rootFolderId) # NoNode) <=> (ws.shortcuts # <<>>)

----------------------------------------------------------------------------
(* Recovery from the folders an earlier install left *)

\* the root container with a link only; with an empty workspace folder and a
\* link beside it; and with a workspace folder that holds one link
BkRootLink == BkCreate(BkRoot, 3, <<"Page">>, "u1")

BkPersonalBeside == BkCreate(BkPersonal, 3, <<"Page">>, "u1")

BkPersonalPage == BkCreate(BkPersonal, 4, <<"Page">>, "u1")

RecoveryStores ==
  {BkEmpty, BkRoot, BkRootLink, BkPersonal, BkPersonalBeside, BkPersonalPage,
   BkShortcutsDup, BkPages, BkUntitled, BkLeftover, BkThree}

\* no replicated workspace data at all, any local partition, any of the stores
InitRecovery ==
  /\ app = AppNew
  /\ sync = SyncEmpty
  /\ \E loc \in InitLocals, rootId \in {NoNode, 3}, b \in RecoveryStores :
       dev = [d \in Devices |->
                [e |-> EngineNew,
                 l |-> IF d = "A" THEN [ws_local |-> loc, arcSpacesRootId |-> rootId] ELSE LocalEmpty,
                 b |-> IF d = "A" THEN b ELSE BkEmpty]]
  /\ clock = 0
  /\ hist = HistEmpty

NextRecovery == DoInit("A") \/ DoContinueInit("A") \/ DoResetAndSetup("A")

SpecRecovery == InitRecovery /\ [][NextRecovery]_vars

\* the order item, the legacy key and every workspace item are absent
NoReplicatedData ==
  /\ sync.meta.version = 0 /\ ~sync.v1.present
  /\ sync.items = EmptyMap /\ sync.keys = <<>>

\* the subfolders of the root container of device d's store
SubfoldersOfRoot(d) ==
  {n \in DOMAIN dev[d].b.nodes :
     /\ n # 0 /\ dev[d].b.nodes[n].url = NoUrl
     /\ findBestArcSpacesRoot(World(d)) # NoNode
     /\ dev[d].b.nodes[n].parent = findBestArcSpacesRoot(World(d))}

\* more than one subfolder, or exactly one and it has a child
Recoverable(d) ==
  \/ Cardinality(SubfoldersOfRoot(d)) > 1
  \/ /\ Cardinality(SubfoldersOfRoot(d)) = 1
     /\ \E n \in DOMAIN dev[d].b.nodes :
          n # 0 /\ dev[d].b.nodes[n].parent \in SubfoldersOfRoot(d)

\* init() left the engine paused on records made from the subfolders, one
\* record for each
RecoveredFrom(w, subfolders) ==
  /\ ~w.err /\ w.e.needsReinstallPrompt /\ w.e.phase = "paused"
  /\ Len(w.e.order) = Cardinality(subfolders)
  /\ DOMAIN w.e.items = Range(w.e.order)
  /\ \A id \in DOMAIN w.e.items : HasRoot(w.e.items[id])
  /\ {w.e.items[id].rootFolderId : id \in DOMAIN w.e.items} = subfolders

\* init() made the ordinary first run: the default workspace, no prompt
FirstRunDone(w) ==
  /\ ~w.err /\ ~w.e.needsReinstallPrompt /\ w.e.phase = "ready"
  /\ w.e.order = <<DefaultId>>

\* C30: with no replicated workspace data at all, init() recovers from the
\* folders (one record per subfolder, paused with needsReinstallPrompt)
\* exactly when the root container has more than one subfolder or exactly one
\* subfolder with at least one child; otherwise it makes the ordinary first
\* run and does not pause
C30_RecoveryExactlyOnContent ==
  \A d \in Devices : NoReplicatedData =>
    With(init(World(d)), LAMBDA w :
      IF Recoverable(d) THEN RecoveredFrom(w, SubfoldersOfRoot(d)) ELSE FirstRunDone(w))

----------------------------------------------------------------------------
(* Colours of the records made from folders *)

\* the longest order and the most subfolders the colour checks are made with
MaxOrder == 10

RECURSIVE BkFolders(_, _, _)
\* the store b with n more folders under parentId
BkFolders(b, parentId, n) ==
  IF n = 0 THEN b ELSE BkFolders(BkCreate(b, parentId, <<"Stuff">>, NoUrl), parentId, n - 1)

\* a world of device d whose store has the root container with n folders
WorldOfFolders(d, n) == [World(d) EXCEPT !.b = BkFolders(BkRoot, 3, n)]

\* a world of device d whose engine holds n workspaces without folder, the
\* root container holding three folders nobody claims
WorldOfOrder(d, n) ==
  [World(d) EXCEPT
     !.e.order = [i \in 1..n |-> 10 + i],
     !.e.items = [id \in 11..(10 + n) |-> Workspace(id, <<"W">>, NoEmoji, "folder", "grey", <<>>)],
     !.e.arcSpacesRootId = 3,
     !.b = BkThree]

\* entry k (from 0) of the palette, cycling through its nine entries
Palette(k) ==
  <<"purple", "blue", "cyan", "green", "yellow", "orange", "red", "pink", "grey">>[(k % 9) + 1]

\* recovery made from the subfolders, in their order, records coloured by
\* position, the first one being ws_default with the home icon
RecoveredColours(w, subfolders) ==
  /\ Len(w.e.order) = Len(subfolders)
  /\ \A i \in 0..(Len(subfolders) - 1) :
       LET ws == w.e.items[w.e.order[i + 1]]
       IN /\ ws.colorScheme = Palette(i)
          /\ ws.rootFolderId = subfolders[i + 1]
          /\ ws.icon = IF i = 0 THEN "home" ELSE "folder"
          /\ (i = 0) <=> (ws.id = DefaultId)

\* the subfolders of the root container, if there is one, that no workspace
\* of the order has
Unclaimed(w) ==
  LET rootId == IF w.e.arcSpacesRootId # NoNode THEN w.e.arcSpacesRootId
                ELSE findBestArcSpacesRoot(w)
  IN IF rootId = NoNode THEN <<>>
     ELSE FilterSeq(BkFolderChildren(w.b, rootId),
                    {f \in DOMAIN w.b.nodes :
                       \A id \in Range(w.e.order) \cap DOMAIN w.e.items :
                         ~HasRoot(w.e.items[id]) \/ w.e.items[id].rootFolderId # f})

\* adoption in world pre, leaving w, appended one record for each unclaimed
\* folder, the i-th coloured by entry (n + i) of the palette, n being the
\* length of the order before
AdoptedColours(pre, w) ==
  LET n == Len(pre.e.order)
      unclaimed == Unclaimed(pre)
  IN /\ Len(w.e.order) >= n + Len(unclaimed)
     /\ SubSeq(w.e.order, 1, n) = pre.e.order
     /\ \A i \in 0..(Len(unclaimed) - 1) :
          LET ws == w.e.items[w.e.order[n + i + 1]]
          IN /\ ws.colorScheme = Palette(n + i)
             /\ ws.rootFolderId = unclaimed[i + 1]
             /\ ws.icon = "folder"

\* C31: recovery from folders gives the i-th subfolder (from 0) palette entry
\* i mod 9 and makes the first one ws_default with the home icon; adoption
\* gives the i-th unclaimed folder palette entry (n + i) mod 9, n being the
\* number of workspaces already in the order
C31_PaletteByPosition ==
  \A d \in Devices :
    /\ \A n \in 1..MaxOrder :
         With(WorldOfFolders(d, n), LAMBDA pre :
           RecoveredColours(rebuildFromBookmarkFolders(pre, 3, BkFolderChildren(pre.b, 3)),
                            BkFolderChildren(pre.b, 3)))
    /\ (NoReplicatedData /\ Recoverable(d)) =>
         With(World(d), LAMBDA pre :
           RecoveredColours(init(pre),
                            BkFolderChildren(pre.b, findBestArcSpacesRoot(pre))))
    /\ \A n \in 0..MaxOrder :
         With(WorldOfOrder(d, n), LAMBDA pre :
           AdoptedColours(pre, adoptOrphanedBookmarkFolders(pre)))
    /\ With(World(d), LAMBDA pre : AdoptedColours(pre, adoptOrphanedBookmarkFolders(pre)))

\* device A holds one workspace from the replicated partition and one adopted
\* from a folder nobody claimed, coloured blue
C31_AdoptedSecondIsBlue ==
  /\ Ready("A")
  /\ Len(dev["A"].e.order) = 2
  /\ dev["A"].e.order[1] = DefaultId
  /\ Range(dev["A"].e.order) \subseteq DOMAIN dev["A"].e.items
  /\ LET ws == dev["A"].e.items[dev["A"].e.order[2]]
     IN /\ ws.colorScheme = "blue" /\ ws.icon = "folder"
        /\ HasRoot(ws) /\ dev["A"].b.nodes[ws.rootFolderId].title = <<"Stuff">>
  /\ hist.merges # {}

----------------------------------------------------------------------------
(* Deleted workspaces and the merging write of the order *)

\* C32: a deleted workspace is not resurrected: once a device has deleted a
\* workspace and the replicated order is without its id, no later write of
\* the order by a device that still holds the id in memory puts it back
C32_DeletedNotResurrected ==
  [][\A id \in hist.deleted :
       ~(id \in Range(sync.meta.order)) => ~(id \in Range(sync'.meta.order))]_vars

----------------------------------------------------------------------------
(* The default item of another device during a first run *)

\* the awaits of a first run that precede its first replicated write
BeforeOwnWrites == 1..3

\* the replicated item of the default workspace holds what the other device
\* wrote: its name, its pins and its shortcuts
OtherDefaultKept(s) ==
  /\ DefaultId \in DOMAIN s.items
  /\ \A f \in {"name", "pinnedBookmarks", "shortcuts"} :
       s.items[DefaultId][f] = OtherDeviceItem(DefaultId)[f]

\* C33: first-run setup never overwrites the item another device wrote: when
\* another device's ws_default item reaches the replicated partition before
\* this device's first run performs its own replicated writes, the item still
\* holds the other device's name, pins and shortcuts when init() returns
C33_FirstRunKeepsOtherItem ==
  dev["A"].e.phase = "new" =>
    \A k \in BeforeOwnWrites :
      With(initR(World("A"), k), LAMBDA w : OtherDefaultKept(w.s))

----------------------------------------------------------------------------
(* Pinned entries whose id still resolves *)

\* the entries `news` hold, for every entry of `olds` whose id resolves, an
\* entry with that id and the live item's url and title
PinsRefreshed(b, olds, news) ==
  \A i \in 1..Len(olds) :
    BkExists(b, olds[i].id) => PinMeta(b, olds[i].id) \in Range(news)

\* C34: during pin reconciliation a pinned entry whose id still resolves is
\* kept and its stored url and title are replaced by the live item's url and
\* title, also when every pinned entry of the workspace still resolves
C34_ResolvingPinsRefreshed ==
  sync.meta.version = 2 =>
    With(PinsEntry("A"),
         LAMBDA p : With(reconcilePinnedBookmarks(p),
                         LAMBDA q : \A id \in Range(getAll(p.e)) :
                                      Resolved(p, id) =>
                                        PinsRefreshed(p.b, p.e.items[id].pinnedBookmarks,
                                                      q.e.items[id].pinnedBookmarks)))

----------------------------------------------------------------------------
(* The pinned ids kept beside the pinned entries *)

NextPinning == DoInit("A") \/ DoPinBookmark("A") \/ DoUnpinBookmark("A")

\* a device that starts on replicated pinned entries, and whose user pins
\* and unpins the pages of the store
SpecPinning == InitPins /\ [][NextPinning]_vars

\* a record that carries pinnedBookmarkIds carries the ids of its entries
CacheMatches(ws) ==
  "pinnedBookmarkIds" \in DOMAIN ws => ws.pinnedBookmarkIds = PinIds(ws.pinnedBookmarks)

\* C35: whenever a workspace carries pinnedBookmarkIds, it is the list of the
\* ids of its pinnedBookmarks in the same order, after init and after any
\* sequence of pinBookmark and unpinBookmark; pinning an id that is already
\* pinned changes neither the record's entries and ids nor the stores
C35_PinnedIdsFollowEntries ==
  /\ \A d \in Devices : \A id \in DOMAIN dev[d].e.items : CacheMatches(dev[d].e.items[id])
  /\ Ready("A") =>
       \A n \in Pages(dev["A"].b) :
         isPinned(dev["A"].e, n) =>
           With(pinBookmark(World("A"), n),
                LAMBDA w : /\ w.s = sync
                           /\ w.l = dev["A"].l
                           /\ \A id \in DOMAIN dev["A"].e.items :
                                /\ w.e.items[id].pinnedBookmarks = dev["A"].e.items[id].pinnedBookmarks
                                /\ PinnedIdsOf(w.e.items[id]) = PinnedIdsOf(dev["A"].e.items[id]))

\* the user has pinned a page beside the entries the device started with:
\* the active workspace carries more ids than the replicated item held
C35_PinnedBesideReplicated ==
  /\ Ready("A")
  /\ getActive(dev["A"].e) # NoId
  /\ "pinnedBookmarkIds" \in DOMAIN dev["A"].e.items[getActive(dev["A"].e)]
  /\ Len(dev["A"].e.items[getActive(dev["A"].e)].pinnedBookmarkIds) = MaxPins + 1
  /\ Len(sync.items[getActive(dev["A"].e)].pinnedBookmarks) = MaxPins + 1

----------------------------------------------------------------------------
(* Migration on a replicated store that rejects writes *)

NextLegacyFaults == DoInitFaulty("A")

\* a device that starts on a legacy value and initializes, again and again,
\* while the store rejects some of the replicated writes
SpecLegacyFaults == InitLegacy /\ [][NextLegacyFaults]_vars

\* the world w holds everything the migration of oldData writes: the item of
\* every workspace, the order item and the local device state
MigrationWritten(w, oldData) ==
  /\ \A id \in Range(oldData.order) \cap DOMAIN oldData.items :
       id \in DOMAIN w.s.items /\ w.s.items[id] = syncableItem(oldData.items[id])
  /\ w.s.meta = [order |-> oldData.order, version |-> 2]
  /\ w.l.ws_local = w.e.localState
  /\ \A id \in Range(oldData.order) \cap DOMAIN oldData.items :
       HasRoot(oldData.items[id]) =>
         /\ id \in DOMAIN w.l.ws_local.rootFolderIds
         /\ w.l.ws_local.rootFolderIds[id] = oldData.items[id].rootFolderId

\* what a handler leaves behind, without the counters of its run
Left(w) == [e |-> w.e, l |-> w.l, b |-> w.b, s |-> w.s, err |-> w.err]

\* the migration started in world w0, on a store that may reject replicated
\* and local writes: the legacy value is gone only if
\* everything was written; after a rejected write it is still there, and an
\* attempt of init() on a store that takes every write ends as a migration
\* that was never interrupted ends
MigratesSafely(w0, clean) ==
  With(migrateV1toV2(w0, getWorkspaces(w0)),
       LAMBDA r :
         /\ ~r.s.v1.present => MigrationWritten(r, getWorkspaces(w0))
         /\ r.err =>
              /\ r.s.v1 = w0.s.v1
              /\ Left(initAttempt([r EXCEPT !.err = FALSE, !.fault = {}, !.localFault = FALSE]))
                   = Left(initAttempt(clean)))

\* C36: migration deletes the legacy item only after every per-workspace
\* item, the order item and the local device state have been written; when
\* a replicated write fails part-way the legacy item is still present and
\* the next attempt of init() migrates again to the same final state
C36_MigrationDeletesLast ==
  (sync.v1.present /\ sync.meta.version # 2) =>
    \A F \in FaultPlans, lf \in BOOLEAN :
      MigratesSafely([WorldFaulty("A", F) EXCEPT !.localFault = lf], World("A"))

----------------------------------------------------------------------------
(* What reorder() accepts *)

\* the sequence names no id twice
NoRepeats(q) == \A i, j \in 1..Len(q) : q[i] = q[j] => i = j

\* q holds the ids of `order`, each once
IsPermutationOf(q, order) ==
  Len(q) = Len(order) /\ Range(q) = Range(order) /\ NoRepeats(q)

\* what a caller may hand to reorder(): any list of ids, as long as the
\* order or one longer
ReorderArgs(e) == UNION {[1..n -> Ids] : n \in 0..(Len(e.order) + 1)}

\* C37: reorder(newOrder) takes effect only when newOrder is a permutation
\* of the in-memory order (same ids, none added, removed or repeated) and is
\* a no-op otherwise, so that neither the in-memory order nor the replicated
\* order holds an id twice
C37_ReorderTakesPermutationsOnly ==
  \A d \in Devices :
    (Ready(d) /\ NoRepeats(dev[d].e.order) /\ NoRepeats(sync.meta.order)) =>
      \A newOrder \in ReorderArgs(dev[d].e) :
        With(reorder(World(d), newOrder),
             LAMBDA w : /\ IsPermutationOf(newOrder, dev[d].e.order)
                           \/ (w.e = dev[d].e /\ w.s = sync)
                        /\ NoRepeats(w.e.order)
                        /\ NoRepeats(w.s.meta.order))

----------------------------------------------------------------------------
(* One folder, one workspace *)

\* no two workspaces of the engine e have the same rootFolderId
FoldersDistinct(e) ==
  \A id1, id2 \in Range(getAll(e)) :
    (id1 # id2 /\ HasRoot(e.items[id1]) /\ HasRoot(e.items[id2]))
      => e.items[id1].rootFolderId # e.items[id2].rootFolderId

\* C38: after folder reconciliation no two workspaces have the same
\* rootFolderId: the folder a workspace entered with and that still exists
\* is not given to another workspace, by name or by position, wherever the
\* workspaces stand in the order
C38_FoldersNeverShared ==
  \A d \in Devices :
    sync.meta.version = 2 =>
      With(ReconcileEntry(d),
           LAMBDA p : FoldersDistinct(p.e) =>
                        With(reconcileFolders(p),
                             LAMBDA q : ~q.err => FoldersDistinct(q.e)))

----------------------------------------------------------------------------
(* The active workspace *)

\* activeWorkspaceId names a workspace that has a record: getActive() is
\* not null
HasActive(e) ==
  /\ e.localState.activeWorkspaceId # NoId
  /\ e.localState.activeWorkspaceId \in DOMAIN e.items
  /\ getActive(e) # NoId

\* C39: in every state after an init() that completed without pausing, and
\* after every later create, delete, reorder or switchTo, activeWorkspaceId
\* names a workspace with an in-memory record, so getActive() is never null;
\* deleting the active workspace makes the first remaining workspace active
C39_ActiveAlwaysNamesARecord ==
  \A d \in Devices :
    Ready(d) =>
      /\ HasActive(dev[d].e)
      /\ \A id \in Ids :
           With(delete(World(d), id),
                LAMBDA w : (id = dev[d].e.localState.activeWorkspaceId /\ ~(id \in DOMAIN w.e.items))
                             => (/\ getAll(w.e) # <<>>
                                 /\ w.e.localState.activeWorkspaceId = First(getAll(w.e))))

----------------------------------------------------------------------------
(* The refresh of the pinned section and of the bookmark tree: requests    *)
(* come from the event bus and from bookmark messages at any time; a body  *)
(* is suspended at its awaits and goes on when the awaited call answers    *)

\* the width of the counters of begun and ended bodies
Serials == 3

\* the requests counted during one body
MaxAsked == 2

\* a refresh body begins: this._refreshing = true
BeginBody(c) ==
  [c EXCEPT !.refreshing = TRUE, !.begun = (@ + 1) % Serials, !.asked = 0, !.stale = FALSE]

\* the guard of refresh() when a body is running: queue one and return
QueueRefresh(c) ==
  [c EXCEPT !.pendingRefresh = TRUE, !.stale = TRUE,
            !.asked = IF @ < MaxAsked THEN @ + 1 ELSE @]

\* a body leaves its try block
EndBody(c, outcome) ==
  [c EXCEPT !.at = "idle", !.ended = (@ + 1) % Serials, !.outcome = outcome,
            !.further = FALSE]

\* !ws || !ws.pinnedBookmarkIds || ws.pinnedBookmarkIds.length === 0
NothingPinned(e) ==
  \/ getActive(e) = NoId
  \/ ~("pinnedBookmarkIds" \in DOMAIN e.items[getActive(e)])
  \/ e.items[getActive(e)].pinnedBookmarkIds = <<>>

\* variant of the finally block that forgets the queued refresh
pinnedFinallyForgetting(c, e) ==
  [c EXCEPT !.refreshing = FALSE, !.pendingRefresh = FALSE]

RECURSIVE pinnedRefresh(_, _)
\* the finally block of PinnedSection.refresh()
pinnedFinally(c, e) ==
  LET c1 == [c EXCEPT !.refreshing = FALSE]
  IN IF c1.pendingRefresh THEN pinnedRefresh([c1 EXCEPT !.pendingRefresh = FALSE, !.further = TRUE], e)
     ELSE c1

\* PinnedSection.refresh() up to its await, or to its end when it returns
\* early
pinnedRefresh(c, e) ==
  IF c.refreshing THEN QueueRefresh(c)
  ELSE IF NothingPinned(e) THEN pinnedFinally(EndBody(BeginBody(c), "returned"), e)
  ELSE [BeginBody(c) EXCEPT !.at = "getMultiple"]

\* PinnedSection.refresh() from the answer of getMultiple() on: the list is
\* built, unless a rendering call throws
pinnedResumed(c, e, threw) ==
  pinnedFinally(EndBody(c, IF threw THEN "threw" ELSE "rendered"), e)

RECURSIVE treeRefresh(_, _)
\* the finally block of BookmarkTree.refresh()
treeFinally(c, e) ==
  LET c1 == [c EXCEPT !.refreshing = FALSE]
  IN IF c1.pendingRefresh THEN treeRefresh([c1 EXCEPT !.pendingRefresh = FALSE, !.further = TRUE], e)
     ELSE c1

\* BookmarkTree.refresh() up to its first await, or to its end when there is
\* no active workspace
treeRefresh(c, e) ==
  IF c.refreshing THEN QueueRefresh(c)
  ELSE IF getActive(e) = NoId THEN treeFinally(EndBody(BeginBody(c), "returned"), e)
  ELSE [BeginBody(c) EXCEPT !.at = "getUIState"]

\* the children of the workspace folder that are not pinned
UnpinnedChildren(e, b) ==
  LET ws == e.items[getActive(e)]
      pinnedIds == IF "pinnedBookmarkIds" \in DOMAIN ws THEN ws.pinnedBookmarkIds ELSE <<>>
  IN FilterSeq(BkChildren(b, ws.rootFolderId), DOMAIN b.nodes \ Range(pinnedIds))

\* BookmarkTree.refresh() from the answer of an awaited call on
treeResumed(c, e, b, threw) ==
  IF c.at = "getUIState" THEN [c EXCEPT !.at = "getSubTree"]
  ELSE IF \/ getActive(e) = NoId
          \/ ~HasRoot(e.items[getActive(e)])
          \/ ~BkExists(b, e.items[getActive(e)].rootFolderId)
          \/ UnpinnedChildren(e, b) = <<>>
       THEN treeFinally(EndBody(c, "returned"), e)
       ELSE treeFinally(EndBody(c, IF threw THEN "threw" ELSE "rendered"), e)

DoPinnedRefresh ==
  /\ app' = [app EXCEPT !.pinnedSection = pinnedRefresh(@, dev["A"].e)]
  /\ UNCHANGED <<sync, dev, clock, hist>>

DoPinnedResumed ==
  /\ app.pinnedSection.at = "getMultiple"
  /\ \E threw \in BOOLEAN :
       app' = [app EXCEPT !.pinnedSection = pinnedResumed(@, dev["A"].e, threw)]
  /\ UNCHANGED <<sync, dev, clock, hist>>

DoTreeRefresh ==
  /\ app' = [app EXCEPT !.bookmarkTree = treeRefresh(@, dev["A"].e)]
  /\ UNCHANGED <<sync, dev, clock, hist>>

DoTreeResumed ==
  /\ app.bookmarkTree.at \in {"getUIState", "getSubTree"}
  /\ \E threw \in BOOLEAN :
       app' = [app EXCEPT !.bookmarkTree = treeResumed(@, dev["A"].e, dev["A"].b, threw)]
  /\ UNCHANGED <<sync, dev, clock, hist>>

\* the engine starts once
DoBoot == dev["A"].e.phase = "new" /\ DoInit("A")

\* a device whose workspace folder holds one page, and nothing pinned
InitRefresh ==
  /\ app = AppNew
  /\ sync = [SyncEmpty EXCEPT !.meta = [order |-> <<0>>, version |-> 2],
                              !.items = (0 :> InitItem(0)),
                              !.keys = <<0>>]
  /\ dev = [d \in Devices |->
              [e |-> EngineNew,
               l |-> IF d = "A"
                     THEN [ws_local |-> [activeWorkspaceId |-> 0, rootFolderIds |-> (0 :> 4)],
                           arcSpacesRootId |-> 3]
                     ELSE LocalEmpty,
               b |-> IF d = "A" THEN BkPersonalPage ELSE BkEmpty]]
  /\ clock = 1
  /\ hist = HistEmpty

NextRefresh ==
  \/ DoBoot \/ DoPinBookmark("A") \/ DoUnpinBookmark("A")
  \/ DoPinnedRefresh \/ DoPinnedResumed
  \/ DoTreeRefresh \/ DoTreeResumed

\* every awaited call answers
SpecRefresh ==
  InitRefresh /\ [][NextRefresh]_vars /\ WF_vars(DoPinnedResumed) /\ WF_vars(DoTreeResumed)

\* the refresh bodies of c that began and did not end
InFlight(c) == (c.begun - c.ended + Serials) % Serials

\* at most one body runs, the flag says whether one does, the requests that
\* arrived during it are held by the one pending flag, and a request that no
\* whole body came after is waiting for the running body to end
OneBodyAtATime(c) ==
  /\ InFlight(c) <= 1
  /\ c.refreshing <=> (InFlight(c) = 1)
  /\ c.refreshing <=> (c.at # "idle")
  /\ c.pendingRefresh <=> (c.asked > 0)
  /\ c.pendingRefresh => c.refreshing
  /\ c.stale => c.pendingRefresh

\* a step from c to c2: a request during a running body begins none; the
\* end of a running body, however it ends, begins exactly one further body
\* when requests arrived during it and none otherwise
Coalesced(c, c2) ==
  /\ (c.refreshing /\ c2.ended = c.ended) => c2.begun = c.begun
  /\ (c.refreshing /\ c2.ended # c.ended) =>
       c2.begun = (c.begun + (IF c.asked > 0 THEN 1 ELSE 0)) % Serials

\* C40: for the pinned section and the bookmark tree, at most one refresh
\* body runs at a time; the requests that arrive while one runs are
\* coalesced into exactly one further refresh, which begins when the running
\* one ends (by its last statement, an early return or an exception); hence
\* after the last request a whole refresh body runs
C40_RefreshesCoalesced ==
  /\ [](OneBodyAtATime(app.pinnedSection) /\ OneBodyAtATime(app.bookmarkTree))
  /\ [][/\ Coalesced(app.pinnedSection, app'.pinnedSection)
        /\ Coalesced(app.bookmarkTree, app'.bookmarkTree)]_vars
  /\ (app.pinnedSection.stale ~> ~app.pinnedSection.stale)
  /\ (app.bookmarkTree.stale ~> ~app.bookmarkTree.stale)

\* a body of the pinned section ended by an exception while requests were
\* waiting, and the one further body they were coalesced into is running
C40_FurtherRefreshAfterException ==
  /\ app.pinnedSection.outcome = "threw"
  /\ app.pinnedSection.refreshing
  /\ app.pinnedSection.further
  /\ app.bookmarkTree.outcome = "returned"
  /\ app.bookmarkTree.refreshing
  /\ app.bookmarkTree.further

====
